---- MODULE Spec2Model ----
(***************************************************************************)
(* Agent Workflow Planner: the plan validator (server lib/spec.ts and      *)
(* frontend lib/validators), the layout engine, the planner, the          *)
(* POST /api/plan route and the frontend App, modelled from the sources.   *)
(*                                                                         *)
(* Strings are TLA+ strings; concatenation (\o), Len and SubSeq are the    *)
(* JavaScript +, length and substring.  An optional field of a TypeScript  *)
(* object (input.from, templateId) is a record field that is present or    *)
(* absent.                                                                 *)
(***************************************************************************)
EXTENDS Integers, Sequences, FiniteSets, TLC

VARIABLES
    plan,       \* the AgentPlan handed to validatePlan / planToReactFlow
    result,     \* the ValidationResult returned, or NoResult before the call
    layout,     \* the LayoutResult returned, or NoLayout before the call
    inflight,   \* the requests sent and not yet received back, with the route's answer
    request,    \* the request the route handled last
    response,   \* the response the route gave last
    calls,      \* what the route called while handling it
    app,        \* the state of the App component
    form,       \* the state of the PromptForm component
    diagram,    \* the diagram text returned, or NoDiagram before the call
    history,    \* the library calls made so far, each with its argument and its result
    loop        \* the level assignment of each planToReactFlow while it runs

vars ==
    <<plan, result, layout, inflight, request, response, calls, app, form, diagram, history,
      loop>>

\* The variables of the route and of the frontend
systemVars == <<inflight, request, response, calls, app, form>>

(***************************************************************************)
(* Bounds of the explored inputs                                           *)
(***************************************************************************)
MaxAgents == 3
MaxEdges == 3
MaxInputs == 2
MaxOutputs == 2

(***************************************************************************)
(* Generic helpers                                                         *)
(***************************************************************************)
RECURSIVE Flatten(_)
Flatten(ss) == IF ss = <<>> THEN <<>> ELSE Head(ss) \o Flatten(Tail(ss))

\* JavaScript truthiness of an optional string field: present and non-empty
Truthy(rec, field) == field \in DOMAIN rec /\ rec[field] # ""

NoResult == [called |-> FALSE]

NoLayout == [called |-> FALSE]

NoDiagram == [called |-> FALSE]

\* One level assignment: not started, its queue, levels and inDegree while it
\* runs, every id pushed on the queue and shifted from it so far, and the
\* LayoutResult at its end
NoRun ==
    [phase |-> "idle", st |-> [queue |-> <<>>, levels |-> <<>>, inDegree |-> <<>>],
     pushed |-> <<>>, shifted |-> <<>>, result |-> NoLayout]

NoLoop == [planner |-> NoRun, frontend |-> NoRun]

(***************************************************************************)
(* validatePlan, server side (agent-workflow-planner/lib/spec.ts)          *)
(***************************************************************************)
\* const agentIds = new Set(plan.agents.map((a) => a.id))
agentIds(p) == {p.agents[i].id : i \in DOMAIN p.agents}

\* Iteration order of the Set agentIds: insertion order, first occurrences
RECURSIVE agentIdOrder(_, _)
agentIdOrder(agents, seen) ==
    IF agents = <<>> THEN <<>>
    ELSE IF Head(agents).id \in seen THEN agentIdOrder(Tail(agents), seen)
    ELSE <<Head(agents).id>> \o agentIdOrder(Tail(agents), seen \cup {Head(agents).id})

ServerEdgeFromMsg(id) == "Edge references unknown 'from' agent: " \o id
ServerEdgeToMsg(id) == "Edge references unknown 'to' agent: " \o id
ServerInputMsg(agentName, inputName, from) ==
    "Agent '" \o agentName \o "' input '" \o inputName \o "' references unknown agent: " \o from
ServerWarningMsg(agentName, outputName) ==
    "Agent '" \o agentName \o "' output '" \o outputName \o "' is not consumed by any edge"
ServerCycleMsg == "The agent graph contains a cycle, which is not allowed"

\* Variant: the second test hangs off an else, so an edge with two unknown
\* ends reports only its from
ServerEdgeErrorsOfElseIf(p, edge) ==
    IF edge.from \notin agentIds(p) THEN <<ServerEdgeFromMsg(edge.from)>>
    ELSE IF edge.to \notin agentIds(p) THEN <<ServerEdgeToMsg(edge.to)>>
    ELSE <<>>

\* 1) every edge references existing agents
ServerEdgeErrorsOf(p, edge) ==
    (IF edge.from \notin agentIds(p) THEN <<ServerEdgeFromMsg(edge.from)>> ELSE <<>>)
    \o (IF edge.to \notin agentIds(p) THEN <<ServerEdgeToMsg(edge.to)>> ELSE <<>>)

ServerEdgeErrors(p) ==
    Flatten([i \in DOMAIN p.edges |-> ServerEdgeErrorsOf(p, p.edges[i])])

\* Variant: the membership test is dropped, every sourced input is reported
ServerInputErrorsOfNoLookup(p, agent) ==
    Flatten([j \in DOMAIN agent.inputs |->
        IF Truthy(agent.inputs[j], "from")
        THEN <<ServerInputMsg(agent.name, agent.inputs[j].name, agent.inputs[j].from)>>
        ELSE <<>>])

\* 2) every non-root input has a provider
ServerInputErrorsOf(p, agent) ==
    Flatten([j \in DOMAIN agent.inputs |->
        IF Truthy(agent.inputs[j], "from") /\ agent.inputs[j].from \notin agentIds(p)
        THEN <<ServerInputMsg(agent.name, agent.inputs[j].name, agent.inputs[j].from)>>
        ELSE <<>>])

ServerInputErrors(p) ==
    Flatten([i \in DOMAIN p.agents |-> ServerInputErrorsOf(p, p.agents[i])])

\* 3) dangling outputs; the keys are the template strings `${from}:${data}`
consumedOutputs(p) == {p.edges[i].from \o ":" \o p.edges[i].data : i \in DOMAIN p.edges}

hasOutgoingEdge(p, agent) == \E i \in DOMAIN p.edges : p.edges[i].from = agent.id

ServerWarningsOf(p, agent) ==
    Flatten([j \in DOMAIN agent.outputs |->
        IF (agent.id \o ":" \o agent.outputs[j].name) \notin consumedOutputs(p)
           /\ hasOutgoingEdge(p, agent)
        THEN <<ServerWarningMsg(agent.name, agent.outputs[j].name)>>
        ELSE <<>>])

ServerWarnings(p) ==
    Flatten([i \in DOMAIN p.agents |-> ServerWarningsOf(p, p.agents[i])])

\* 4) adjacency: one list per agent id; edges whose from is unknown are skipped
adjacency(p) ==
    [id \in agentIds(p) |->
        LET own == SelectSeq(p.edges, LAMBDA e : e.from = id)
        IN [i \in DOMAIN own |-> own[i].to]]

neighbors(adj, node) == IF node \in DOMAIN adj THEN adj[node] ELSE <<>>

\* function hasCycle(node): DFS with the visited and recStack sets threaded
\* through as st = [found, visited, recStack]
RECURSIVE hasCycle(_, _, _), hasCycleLoop(_, _, _, _)
hasCycle(adj, node, st) ==
    LET entered == [st EXCEPT !.visited = @ \cup {node}, !.recStack = @ \cup {node}]
        after == hasCycleLoop(adj, node, 1, entered)
    IN IF after.found THEN after
       ELSE [after EXCEPT !.recStack = @ \ {node}]

hasCycleLoop(adj, node, i, st) ==
    IF i > Len(neighbors(adj, node)) THEN st
    ELSE LET neighbor == neighbors(adj, node)[i]
         IN IF neighbor \notin st.visited
            THEN LET sub == hasCycle(adj, neighbor, st)
                 IN IF sub.found THEN sub ELSE hasCycleLoop(adj, node, i + 1, sub)
            ELSE IF neighbor \in st.recStack
                 THEN [st EXCEPT !.found = TRUE]
                 ELSE hasCycleLoop(adj, node, i + 1, st)

\* Variant: only the first agent is used as a DFS root
ServerCycleScanFirstRootOnly(adj, ids, st) ==
    ids # <<>> /\ hasCycle(adj, Head(ids), st).found

\* for (const id of agentIds) if (!visited.has(id)) if (hasCycle(id)) {push; break}
RECURSIVE ServerCycleScan(_, _, _)
ServerCycleScan(adj, ids, st) ==
    IF ids = <<>> THEN FALSE
    ELSE IF Head(ids) \in st.visited THEN ServerCycleScan(adj, Tail(ids), st)
    ELSE LET r == hasCycle(adj, Head(ids), st)
         IN IF r.found THEN TRUE ELSE ServerCycleScan(adj, Tail(ids), r)

ServerCycleErrors(p) ==
    IF ServerCycleScan(adjacency(p), agentIdOrder(p.agents, {}),
                       [found |-> FALSE, visited |-> {}, recStack |-> {}])
    THEN <<ServerCycleMsg>> ELSE <<>>

ServerErrors(p) == ServerEdgeErrors(p) \o ServerInputErrors(p) \o ServerCycleErrors(p)

\* Variant: warnings count against ok
ServerOkStrict(errors, warnings) == Len(errors) = 0 /\ Len(warnings) = 0

ServerOk(errors, warnings) == Len(errors) = 0

\* Variant: the errors array outlives the call, so that a later call
\* returns the errors of the earlier ones as well
validatePlanKeepingErrors(p) ==
    [called |-> TRUE, by |-> "server",
     ok |-> ServerOk((IF result.called THEN result.errors ELSE <<>>) \o ServerErrors(p),
                     ServerWarnings(p)),
     errors |-> (IF result.called THEN result.errors ELSE <<>>) \o ServerErrors(p),
     warnings |-> ServerWarnings(p)]

validatePlan(p) ==
    [called |-> TRUE, by |-> "server",
     ok |-> ServerOk(ServerErrors(p), ServerWarnings(p)),
     errors |-> ServerErrors(p),
     warnings |-> ServerWarnings(p)]

(***************************************************************************)
(* validatePlan, client side (agent-workflow-frontend, lib/validators)     *)
(***************************************************************************)
ClientEdgeFromMsg(id) == "Edge references unknown source agent: \"" \o id \o "\""
ClientEdgeToMsg(id) == "Edge references unknown target agent: \"" \o id \o "\""
ClientInputMsg(agentName, inputName, from) ==
    "Agent \"" \o agentName \o "\" input \"" \o inputName
        \o "\" references unknown agent: \"" \o from \o "\""
ClientWarningMsg(agentName, outputName) ==
    "Agent \"" \o agentName \o "\" output \"" \o outputName \o "\" is not consumed by any edge"
ClientCycleMsg == "The workflow contains a cycle, which is not allowed"

ClientEdgeErrorsOf(p, edge) ==
    (IF edge.from \notin agentIds(p) THEN <<ClientEdgeFromMsg(edge.from)>> ELSE <<>>)
    \o (IF edge.to \notin agentIds(p) THEN <<ClientEdgeToMsg(edge.to)>> ELSE <<>>)

ClientEdgeErrors(p) ==
    Flatten([i \in DOMAIN p.edges |-> ClientEdgeErrorsOf(p, p.edges[i])])

ClientInputErrorsOf(p, agent) ==
    Flatten([j \in DOMAIN agent.inputs |->
        IF Truthy(agent.inputs[j], "from") /\ agent.inputs[j].from \notin agentIds(p)
        THEN <<ClientInputMsg(agent.name, agent.inputs[j].name, agent.inputs[j].from)>>
        ELSE <<>>])

ClientInputErrors(p) ==
    Flatten([i \in DOMAIN p.agents |-> ClientInputErrorsOf(p, p.agents[i])])

\* Variant: a terminal agent is warned about as well
ClientWarningsOfTerminalToo(p, agent) ==
    Flatten([j \in DOMAIN agent.outputs |->
        IF (agent.id \o ":" \o agent.outputs[j].name) \notin consumedOutputs(p)
        THEN <<ClientWarningMsg(agent.name, agent.outputs[j].name)>>
        ELSE <<>>])

ClientWarningsOf(p, agent) ==
    Flatten([j \in DOMAIN agent.outputs |->
        IF (agent.id \o ":" \o agent.outputs[j].name) \notin consumedOutputs(p)
           /\ hasOutgoingEdge(p, agent)
        THEN <<ClientWarningMsg(agent.name, agent.outputs[j].name)>>
        ELSE <<>>])

ClientWarnings(p) ==
    Flatten([i \in DOMAIN p.agents |-> ClientWarningsOf(p, p.agents[i])])

\* function dfs(node) of hasCycle(plan)
RECURSIVE dfs(_, _, _), dfsLoop(_, _, _, _)
dfs(adj, node, st) ==
    LET entered == [st EXCEPT !.visited = @ \cup {node}, !.recStack = @ \cup {node}]
        after == dfsLoop(adj, node, 1, entered)
    IN IF after.found THEN after
       ELSE [after EXCEPT !.recStack = @ \ {node}]

dfsLoop(adj, node, i, st) ==
    IF i > Len(neighbors(adj, node)) THEN st
    ELSE LET neighbor == neighbors(adj, node)[i]
         IN IF neighbor \notin st.visited
            THEN LET sub == dfs(adj, neighbor, st)
                 IN IF sub.found THEN sub ELSE dfsLoop(adj, node, i + 1, sub)
            ELSE IF neighbor \in st.recStack
                 THEN [st EXCEPT !.found = TRUE]
                 ELSE dfsLoop(adj, node, i + 1, st)

\* for (const agent of plan.agents) if (!visited.has(agent.id)) if (dfs(agent.id)) return true
RECURSIVE ClientCycleScan(_, _, _)
ClientCycleScan(adj, agents, st) ==
    IF agents = <<>> THEN FALSE
    ELSE IF Head(agents).id \in st.visited THEN ClientCycleScan(adj, Tail(agents), st)
    ELSE LET r == dfs(adj, Head(agents).id, st)
         IN IF r.found THEN TRUE ELSE ClientCycleScan(adj, Tail(agents), r)

\* function hasCycle(plan) of the frontend
hasCyclePlan(p) ==
    ClientCycleScan(adjacency(p), p.agents,
                    [found |-> FALSE, visited |-> {}, recStack |-> {}])

ClientCycleErrors(p) == IF hasCyclePlan(p) THEN <<ClientCycleMsg>> ELSE <<>>

ClientErrors(p) == ClientEdgeErrors(p) \o ClientInputErrors(p) \o ClientCycleErrors(p)

ClientOk(errors, warnings) == Len(errors) = 0

clientValidatePlan(p) ==
    [called |-> TRUE, by |-> "client",
     ok |-> ClientOk(ClientErrors(p), ClientWarnings(p)),
     errors |-> ClientErrors(p),
     warnings |-> ClientWarnings(p)]

(***************************************************************************)
(* Layout engine of the planner app (lib/layout: planToReactFlow) and of   *)
(* the frontend (planToReactFlow with computeLevels)                       *)
(***************************************************************************)
NODE_WIDTH == 280
NODE_HEIGHT == 100
HORIZONTAL_GAP == 100
VERTICAL_GAP == 40

FRONTEND_NODE_WIDTH == 260
FRONTEND_NODE_HEIGHT == 90
FRONTEND_HORIZONTAL_GAP == 120
FRONTEND_VERTICAL_GAP == 30

Max(a, b) == IF a >= b THEN a ELSE b

\* adjacency.set(agent.id, []) for every agent, then
\* adjacency.get(edge.from)?.push(edge.to) for every edge
layoutAdjacency(p) ==
    [id \in agentIds(p) |->
        LET own == SelectSeq(p.edges, LAMBDA e : e.from = id)
        IN [i \in DOMAIN own |-> own[i].to]]

\* inDegree.set(agent.id, 0) for every agent, then
\* inDegree.set(edge.to, (inDegree.get(edge.to) || 0) + 1) for every edge
layoutInDegree(p) ==
    [id \in agentIds(p) \cup {p.edges[i].to : i \in DOMAIN p.edges} |->
        Cardinality({i \in DOMAIN p.edges : p.edges[i].to = id})]

\* map.get(key) || 0
GetOr0(map, key) == IF key \in DOMAIN map THEN map[key] ELSE 0

\* map.set(key, value)
MapSet(map, key, value) ==
    [k \in DOMAIN map \cup {key} |-> IF k = key THEN value ELSE map[k]]

\* Start with root nodes (in-degree 0): queue.push(agent.id); levels.set(agent.id, 0)
RECURSIVE seedRoots(_, _, _)
seedRoots(agents, inDegree, st) ==
    IF agents = <<>> THEN st
    ELSE seedRoots(Tail(agents), inDegree,
            IF GetOr0(inDegree, Head(agents).id) = 0
            THEN [st EXCEPT !.queue = Append(@, Head(agents).id),
                            !.levels = MapSet(@, Head(agents).id, 0)]
            ELSE st)

\* Variant: the neighbour is put in the column of the current node
nextLevelSameColumn(existingLevel, currentLevel) == Max(existingLevel, currentLevel)

\* Math.max(existingLevel, currentLevel + 1)
nextLevel(existingLevel, currentLevel) == Max(existingLevel, currentLevel + 1)

\* Variant: the neighbour is enqueued at every edge that reaches it
visitNeighborAlwaysPush(st, neighbor, currentLevel) ==
    LET newDegree == GetOr0(st.inDegree, neighbor) - 1
        degreed == [st EXCEPT !.inDegree = MapSet(@, neighbor, newDegree)]
        existingLevel == GetOr0(degreed.levels, neighbor)
    IN [degreed EXCEPT
          !.levels = MapSet(@, neighbor, nextLevel(existingLevel, currentLevel)),
          !.queue = Append(@, neighbor)]

\* Variant: the neighbour is enqueued when it is reached for the first time
visitNeighborOnFirstVisit(st, neighbor, currentLevel) ==
    LET newDegree == GetOr0(st.inDegree, neighbor) - 1
        degreed == [st EXCEPT !.inDegree = MapSet(@, neighbor, newDegree)]
        existingLevel == GetOr0(degreed.levels, neighbor)
        leveled == [degreed EXCEPT
                      !.levels = MapSet(@, neighbor, nextLevel(existingLevel, currentLevel))]
    IN IF neighbor \notin DOMAIN st.levels
       THEN [leveled EXCEPT !.queue = Append(@, neighbor)]
       ELSE leveled

\* Body of the for loop over the neighbours of current (planner app): the
\* in-degree is decremented first, then the level is raised
visitNeighbor(st, neighbor, currentLevel) ==
    LET newDegree == GetOr0(st.inDegree, neighbor) - 1
        degreed == [st EXCEPT !.inDegree = MapSet(@, neighbor, newDegree)]
        existingLevel == GetOr0(degreed.levels, neighbor)
        leveled == [degreed EXCEPT
                      !.levels = MapSet(@, neighbor, nextLevel(existingLevel, currentLevel))]
    IN IF newDegree = 0 THEN [leveled EXCEPT !.queue = Append(@, neighbor)] ELSE leveled

\* Variant: the level is set when the neighbour is enqueued
computeLevelsVisitAtPush(st, neighbor, currentLevel) ==
    LET newDegree == GetOr0(st.inDegree, neighbor) - 1
        degreed == [st EXCEPT !.inDegree = MapSet(@, neighbor, newDegree)]
    IN IF newDegree = 0
       THEN [degreed EXCEPT !.levels = MapSet(@, neighbor, currentLevel + 1),
                            !.queue = Append(@, neighbor)]
       ELSE degreed

\* Body of the for loop of computeLevels (frontend): the level is raised
\* first, then the in-degree is decremented
computeLevelsVisit(st, neighbor, currentLevel) ==
    LET existingLevel == GetOr0(st.levels, neighbor)
        leveled == [st EXCEPT
                      !.levels = MapSet(@, neighbor, nextLevel(existingLevel, currentLevel))]
        newDegree == GetOr0(leveled.inDegree, neighbor) - 1
        degreed == [leveled EXCEPT !.inDegree = MapSet(@, neighbor, newDegree)]
    IN IF newDegree = 0 THEN [degreed EXCEPT !.queue = Append(@, neighbor)] ELSE degreed

RECURSIVE visitAll(_, _, _, _)
visitAll(st, nbrs, currentLevel, frontend) ==
    IF nbrs = <<>> THEN st
    ELSE visitAll(IF frontend THEN computeLevelsVisit(st, Head(nbrs), currentLevel)
                  ELSE visitNeighbor(st, Head(nbrs), currentLevel),
                  Tail(nbrs), currentLevel, frontend)

\* One iteration of while (queue.length > 0): current = queue.shift()
processCurrent(adj, st, frontend) ==
    LET current == Head(st.queue)
        currentLevel == GetOr0(st.levels, current)
    IN visitAll([st EXCEPT !.queue = Tail(@)], neighbors(adj, current), currentLevel, frontend)

RECURSIVE runQueue(_, _, _)
runQueue(adj, st, frontend) ==
    IF st.queue = <<>> THEN st ELSE runQueue(adj, processCurrent(adj, st, frontend), frontend)

\* The queue, levels and inDegree when the while loop is reached
startLevels(p) ==
    seedRoots(p.agents, layoutInDegree(p),
              [queue |-> <<>>, levels |-> <<>>, inDegree |-> layoutInDegree(p)])

\* The levels map after the topological pass
assignLevels(p, frontend) == runQueue(layoutAdjacency(p), startLevels(p), frontend).levels

computeLevels(p) == assignLevels(p, TRUE)

\* levelGroups: the levels in order of first appearance among the agents,
\* each with its agents in declaration order
RECURSIVE levelOrder(_, _, _)
levelOrder(agents, levels, seen) ==
    IF agents = <<>> THEN <<>>
    ELSE LET level == GetOr0(levels, Head(agents).id)
         IN IF level \in seen THEN levelOrder(Tail(agents), levels, seen)
            ELSE <<level>> \o levelOrder(Tail(agents), levels, seen \cup {level})

levelGroup(agents, levels, level) ==
    SelectSeq(agents, LAMBDA a : GetOr0(levels, a.id) = level)

\* Variant: the column starts at y = 0 instead of being centred
columnNodesFromTop(level, agents, width, height, hgap, vgap) ==
    [index \in DOMAIN agents |->
        [id |-> agents[index].id, x |-> level * (width + hgap),
         y |-> (index - 1) * (height + vgap)]]

\* Positions of the agents of one column
columnNodes(level, agents, width, height, hgap, vgap) ==
    LET x == level * (width + hgap)
        totalHeight == Len(agents) * height + (Len(agents) - 1) * vgap
        startY == -(totalHeight \div 2)
    IN [index \in DOMAIN agents |->
           [id |-> agents[index].id, x |-> x, y |-> startY + (index - 1) * (height + vgap)]]

\* Variant: an agent that was given no level is left out of the result
layoutNodesLeveledOnly(p, levels, width, height, hgap, vgap) ==
    LET leveled == SelectSeq(p.agents, LAMBDA a : a.id \in DOMAIN levels)
        order == levelOrder(leveled, levels, {})
    IN Flatten([g \in DOMAIN order |->
           columnNodes(order[g], levelGroup(leveled, levels, order[g]),
                       width, height, hgap, vgap)])

layoutNodes(p, levels, width, height, hgap, vgap) ==
    LET order == levelOrder(p.agents, levels, {})
    IN Flatten([g \in DOMAIN order |->
           columnNodes(order[g], levelGroup(p.agents, levels, order[g]),
                       width, height, hgap, vgap)])

\* edge.data.replace(/_/g, " ")
RECURSIVE replaceUnderscores(_)
replaceUnderscores(s) ==
    IF Len(s) = 0 THEN ""
    ELSE (IF SubSeq(s, 1, 1) = "_" THEN " " ELSE SubSeq(s, 1, 1))
         \o replaceUnderscores(SubSeq(s, 2, Len(s)))

\* Variant: an edge that names an unknown agent is left out
layoutEdgesKnownOnly(p) ==
    LET known == SelectSeq(p.edges, LAMBDA e : e.from \in agentIds(p) /\ e.to \in agentIds(p))
    IN [index \in DOMAIN known |->
           [index |-> index - 1, source |-> known[index].from, target |-> known[index].to,
            label |-> replaceUnderscores(known[index].data)]]

\* Edge number index (0-based) has id `edge-${index}`
layoutEdges(p) ==
    [index \in DOMAIN p.edges |->
        [index |-> index - 1, source |-> p.edges[index].from, target |-> p.edges[index].to,
         label |-> replaceUnderscores(p.edges[index].data)]]

\* Variant: the nodes array outlives the call, so that a later call returns
\* the nodes of the earlier ones as well
planToReactFlowKeepingNodes(p) ==
    [called |-> TRUE, by |-> "planner",
     nodes |-> (IF layout.called THEN layout.nodes ELSE <<>>)
                   \o layoutNodes(p, assignLevels(p, FALSE),
                                  NODE_WIDTH, NODE_HEIGHT, HORIZONTAL_GAP, VERTICAL_GAP),
     edges |-> layoutEdges(p)]

planToReactFlow(p) ==
    [called |-> TRUE, by |-> "planner",
     nodes |-> layoutNodes(p, assignLevels(p, FALSE),
                           NODE_WIDTH, NODE_HEIGHT, HORIZONTAL_GAP, VERTICAL_GAP),
     edges |-> layoutEdges(p)]

frontendPlanToReactFlow(p) ==
    [called |-> TRUE, by |-> "frontend",
     nodes |-> layoutNodes(p, computeLevels(p),
                           FRONTEND_NODE_WIDTH, FRONTEND_NODE_HEIGHT,
                           FRONTEND_HORIZONTAL_GAP, FRONTEND_VERTICAL_GAP),
     edges |-> layoutEdges(p)]

(***************************************************************************)
(* JavaScript strings, as far as the planner uses them                     *)
(***************************************************************************)
UpperChars == "ABCDEFGHIJKLMNOPQRSTUVWXYZ"
LowerChars == "abcdefghijklmnopqrstuvwxyz"
DigitChars == "0123456789"

charAt(s, i) == SubSeq(s, i, i)

CharsOf(s) == {charAt(s, i) : i \in 1..Len(s)}

\* The letter at the same place of the other alphabet
LowerOf ==
    [c \in CharsOf(UpperChars) |->
        charAt(LowerChars, CHOOSE i \in 1..Len(UpperChars) : charAt(UpperChars, i) = c)]

UpperOf ==
    [c \in CharsOf(LowerChars) |->
        charAt(UpperChars, CHOOSE i \in 1..Len(LowerChars) : charAt(LowerChars, i) = c)]

lowerChar(c) == IF c \in DOMAIN LowerOf THEN LowerOf[c] ELSE c

upperChar(c) == IF c \in DOMAIN UpperOf THEN UpperOf[c] ELSE c

RECURSIVE toLowerCase(_)
toLowerCase(s) ==
    IF Len(s) = 0 THEN "" ELSE lowerChar(charAt(s, 1)) \o toLowerCase(SubSeq(s, 2, Len(s)))

\* str.substring(0, n)
substring0(s, n) == SubSeq(s, 1, IF n < Len(s) THEN n ELSE Len(s))

\* The regular expression classes \s and \w
IsSpace(c) == c \in {" ", "\t", "\n", "\r"}

WordChars == CharsOf(UpperChars) \cup CharsOf(LowerChars) \cup CharsOf(DigitChars) \cup {"_"}

IsWordChar(c) == c \in WordChars

\* s.includes(sub)
includes(s, sub) ==
    \E i \in 1..(Len(s) - Len(sub) + 1) : SubSeq(s, i, i + Len(sub) - 1) = sub

\* The first position at or after i that holds no white space (Len(s) + 1 if none)
RECURSIVE skipSpaces(_, _)
skipSpaces(s, i) ==
    IF i <= Len(s) /\ IsSpace(charAt(s, i)) THEN skipSpaces(s, i + 1) ELSE i

\* A pattern is a sequence of items: a literal matched without regard to
\* case, \s* or \s+.  matchEnd is the position after the match of pat that
\* starts at position i of s, or 0 when pat does not match there.
Lit(str) == [k |-> "lit", s |-> str]
Ws0 == [k |-> "ws*", s |-> ""]
Ws1 == [k |-> "ws+", s |-> ""]

RECURSIVE matchEnd(_, _, _)
matchEnd(s, i, pat) ==
    IF pat = <<>> THEN i
    ELSE LET t == Head(pat)
         IN CASE t.k = "lit" ->
                   IF /\ i + Len(t.s) - 1 <= Len(s)
                      /\ toLowerCase(SubSeq(s, i, i + Len(t.s) - 1)) = t.s
                   THEN matchEnd(s, i + Len(t.s), Tail(pat))
                   ELSE 0
              [] t.k = "ws*" -> matchEnd(s, skipSpaces(s, i), Tail(pat))
              [] OTHER ->
                   IF skipSpaces(s, i) > i
                   THEN matchEnd(s, skipSpaces(s, i), Tail(pat))
                   ELSE 0

\* s.replace(/pat/g, rep), scanning from position i
RECURSIVE replaceFrom(_, _, _, _)
replaceFrom(s, i, pat, rep) ==
    IF i > Len(s) THEN ""
    ELSE IF matchEnd(s, i, pat) > 0
         THEN rep \o replaceFrom(s, matchEnd(s, i, pat), pat, rep)
         ELSE charAt(s, i) \o replaceFrom(s, i + 1, pat, rep)

replaceAll(s, pat, rep) == replaceFrom(s, 1, pat, rep)

\* s.split(/pat/): cur is the piece collected so far
RECURSIVE splitFrom(_, _, _, _)
splitFrom(s, i, pat, cur) ==
    IF i > Len(s) THEN <<cur>>
    ELSE IF matchEnd(s, i, pat) > 0
         THEN <<cur>> \o splitFrom(s, matchEnd(s, i, pat), pat, "")
         ELSE splitFrom(s, i + 1, pat, cur \o charAt(s, i))

split(s, pat) == splitFrom(s, 1, pat, "")

RECURSIVE trimEnd(_)
trimEnd(s) ==
    IF Len(s) > 0 /\ IsSpace(charAt(s, Len(s))) THEN trimEnd(SubSeq(s, 1, Len(s) - 1)) ELSE s

trim(s) == trimEnd(SubSeq(s, skipSpaces(s, 1), Len(s)))

\* words.join(" ")
RECURSIVE join(_, _)
join(words, sep) ==
    IF words = <<>> THEN ""
    ELSE IF Len(words) = 1 THEN words[1]
    ELSE words[1] \o sep \o join(Tail(words), sep)

\* words.slice(from, to) with 0-based from (inclusive) and to (exclusive)
slice(words, from, to) ==
    SubSeq(words, from + 1, IF to < Len(words) THEN to ELSE Len(words))

\* str.charAt(0).toUpperCase() + str.slice(1)
capitalize(str) ==
    IF Len(str) = 0 THEN "" ELSE upperChar(charAt(str, 1)) \o SubSeq(str, 2, Len(str))

\* The properties every object literal inherits from Object.prototype: a
\* lookup obj[key] with one of these keys yields the inherited member
ObjectPrototypeKeys ==
    {"constructor", "__proto__", "toString", "toLocaleString", "valueOf",
     "hasOwnProperty", "isPrototypeOf", "propertyIsEnumerable",
     "__defineGetter__", "__defineSetter__", "__lookupGetter__", "__lookupSetter__"}

(***************************************************************************)
(* Diagram exporter of the planner app (lib/mermaid) and of the frontend:  *)
(* planToMermaid and planToSequenceDiagram                                 *)
(***************************************************************************)
\* /[^a-zA-Z0-9]/
IsAlphaNumeric(c) == c \in (WordChars \ {"_"})

\* id.replace(/[^a-zA-Z0-9]/g, "_")
RECURSIVE sanitizeId(_)
sanitizeId(id) ==
    IF Len(id) = 0 THEN ""
    ELSE (IF IsAlphaNumeric(charAt(id, 1)) THEN charAt(id, 1) ELSE "_")
             \o sanitizeId(SubSeq(id, 2, Len(id)))

\* if (str.length <= maxLength) return str; return str.substring(0, maxLength - 3) + "..."
truncate(str, maxLength) ==
    IF Len(str) <= maxLength THEN str ELSE substring0(str, maxLength - 3) \o "..."

\* text.replace(/"/g, "'").replace(/\[/g, '(').replace(/\]/g, ')')
RECURSIVE escapeLabel(_)
escapeLabel(text) ==
    IF Len(text) = 0 THEN ""
    ELSE (CASE charAt(text, 1) = "\"" -> "'"
            [] charAt(text, 1) = "[" -> "("
            [] charAt(text, 1) = "]" -> ")"
            [] OTHER -> charAt(text, 1))
             \o escapeLabel(SubSeq(text, 2, Len(text)))

\* AGENT_TYPE_COLORS of lib/spec and of the frontend theme
AGENT_TYPE_COLORS ==
    [type \in {"Orchestrator", "Retriever", "Extractor", "Classifier", "Generator",
               "ToolExecutor", "HumanGate", "Notifier"} |->
        CASE type = "Orchestrator" -> "#805AD5"
          [] type = "Retriever" -> "#3182CE"
          [] type = "Extractor" -> "#38A169"
          [] type = "Classifier" -> "#DD6B20"
          [] type = "Generator" -> "#D53F8C"
          [] type = "ToolExecutor" -> "#319795"
          [] type = "HumanGate" -> "#E53E3E"
          [] OTHER -> "#718096"]

FRONTEND_AGENT_TYPE_COLORS ==
    [type \in {"Orchestrator", "Retriever", "Extractor", "Classifier", "Generator",
               "ToolExecutor", "HumanGate", "Notifier"} |->
        CASE type = "Orchestrator" -> "#7C3AED"
          [] type = "Retriever" -> "#2563EB"
          [] type = "Extractor" -> "#059669"
          [] type = "Classifier" -> "#D97706"
          [] type = "Generator" -> "#DB2777"
          [] type = "ToolExecutor" -> "#0891B2"
          [] type = "HumanGate" -> "#DC2626"
          [] OTHER -> "#6B7280"]

\* `${colors[agent.type]}`: a type that is no key of the table gives undefined
colorOf(colors, type) == IF type \in DOMAIN colors THEN colors[type] ELSE "undefined"

\* The label of a node: the name, a backslash and an n, the truncated summary
mermaidNodeLabel(agent) == agent.name \o "\\n" \o truncate(agent.summary, 40)

frontendMermaidNodeLabel(agent) ==
    escapeLabel(agent.name \o "\\n" \o truncate(agent.summary, 35))

Diagram(by, kind, lines) == [called |-> TRUE, by |-> by, kind |-> kind, text |-> join(lines, "\n")]

planToMermaid(p) ==
    Diagram("planner", "flowchart",
        <<"flowchart LR", "", "  %% Nodes">>
            \o [i \in DOMAIN p.agents |->
                   "  " \o sanitizeId(p.agents[i].id) \o "[\""
                        \o mermaidNodeLabel(p.agents[i]) \o "\"]"]
            \o <<"", "  %% Edges">>
            \o [i \in DOMAIN p.edges |->
                   "  " \o sanitizeId(p.edges[i].from) \o " -->|"
                        \o replaceUnderscores(p.edges[i].data) \o "| "
                        \o sanitizeId(p.edges[i].to)]
            \o <<"", "  %% Styling">>
            \o [i \in DOMAIN p.agents |->
                   "  style " \o sanitizeId(p.agents[i].id) \o " fill:"
                        \o colorOf(AGENT_TYPE_COLORS, p.agents[i].type) \o ",color:#fff"])

frontendPlanToMermaid(p) ==
    Diagram("frontend", "flowchart",
        <<"flowchart LR", "", "  %% Agent Nodes">>
            \o [i \in DOMAIN p.agents |->
                   "  " \o sanitizeId(p.agents[i].id) \o "[\""
                        \o frontendMermaidNodeLabel(p.agents[i]) \o "\"]"]
            \o <<"", "  %% Data Handoffs">>
            \o [i \in DOMAIN p.edges |->
                   "  " \o sanitizeId(p.edges[i].from) \o " -->|"
                        \o escapeLabel(replaceUnderscores(p.edges[i].data)) \o "| "
                        \o sanitizeId(p.edges[i].to)]
            \o <<"", "  %% Agent Type Styling">>
            \o [i \in DOMAIN p.agents |->
                   "  style " \o sanitizeId(p.agents[i].id) \o " fill:"
                        \o colorOf(FRONTEND_AGENT_TYPE_COLORS, p.agents[i].type)
                        \o ",color:#fff,stroke:"
                        \o colorOf(FRONTEND_AGENT_TYPE_COLORS, p.agents[i].type)])

\* plan.agents.filter((a) => !hasIncoming.has(a.id))
rootAgents(p) ==
    SelectSeq(p.agents, LAMBDA a : a.id \notin {p.edges[i].to : i \in DOMAIN p.edges})

\* Variant: the terminal agents are looked up in hasIncoming
terminalAgentsByIncoming(p) ==
    SelectSeq(p.agents, LAMBDA a : a.id \notin {p.edges[i].to : i \in DOMAIN p.edges})

\* plan.agents.filter((a) => !hasOutgoing.has(a.id))
terminalAgents(p) ==
    SelectSeq(p.agents, LAMBDA a : a.id \notin {p.edges[i].from : i \in DOMAIN p.edges})

\* The lines for the root agents and for the terminal agents
startLines(roots, text) ==
    [i \in DOMAIN roots |-> "  User->>+" \o sanitizeId(roots[i].id) \o ": " \o text]

completeLines(terminals, text) ==
    [i \in DOMAIN terminals |-> "  " \o sanitizeId(terminals[i].id) \o "-->>-User: " \o text]

planToSequenceDiagram(p) ==
    Diagram("planner", "sequence",
        <<"sequenceDiagram", "  participant User">>
            \o [i \in DOMAIN p.agents |->
                   "  participant " \o sanitizeId(p.agents[i].id) \o " as " \o p.agents[i].name]
            \o <<"">>
            \o startLines(rootAgents(p), "Start workflow")
            \o [i \in DOMAIN p.edges |->
                   "  " \o sanitizeId(p.edges[i].from) \o "->>+" \o sanitizeId(p.edges[i].to)
                        \o ": " \o p.edges[i].data]
            \o completeLines(terminalAgents(p), "Complete"))

frontendPlanToSequenceDiagram(p) ==
    Diagram("frontend", "sequence",
        <<"sequenceDiagram", "  participant User">>
            \o [i \in DOMAIN p.agents |->
                   "  participant " \o sanitizeId(p.agents[i].id) \o " as "
                        \o escapeLabel(p.agents[i].name)]
            \o <<"">>
            \o startLines(rootAgents(p), "Start")
            \o [i \in DOMAIN p.edges |->
                   "  " \o sanitizeId(p.edges[i].from) \o "->>+" \o sanitizeId(p.edges[i].to)
                        \o ": " \o escapeLabel(replaceUnderscores(p.edges[i].data))]
            \o completeLines(terminalAgents(p), "Done"))

(***************************************************************************)
(* Planner (lib/planner): canned templates and the deterministic stub      *)
(***************************************************************************)
\* The value of obj[key] when key is not an own property of the object
\* literal obj but is inherited: a function or object, never a string.  The
\* model writes it as a name that no plan string can be.
Inherited(key) == "Object.prototype." \o key

InheritedValues == {Inherited(key) : key \in ObjectPrototypeKeys}

IsJsString(v) == v \notin InheritedValues

SupportTriageTemplate ==
    [version |-> "0.1",
     title |-> "Support Ticket Triage",
     description |-> "Ingest support emails, extract details, classify severity, require human approval for critical, create a Jira ticket, notify Slack.",
     agents |-> <<
        [id |-> "email-ingester", name |-> "Email Ingester", type |-> "Retriever",
         summary |-> "Fetches incoming support emails from the inbox",
         inputs |-> <<[name |-> "email_inbox"]>>,
         outputs |-> <<[name |-> "raw_email"]>>],
        [id |-> "detail-extractor", name |-> "Detail Extractor", type |-> "Extractor",
         summary |-> "Parses email to extract sender, subject, body, and metadata",
         inputs |-> <<[from |-> "email-ingester", name |-> "raw_email"]>>,
         outputs |-> <<[name |-> "ticket_details"]>>],
        [id |-> "severity-classifier", name |-> "Severity Classifier", type |-> "Classifier",
         summary |-> "Classifies ticket severity as low, medium, high, or critical",
         inputs |-> <<[from |-> "detail-extractor", name |-> "ticket_details"]>>,
         outputs |-> <<[name |-> "severity"], [name |-> "classified_ticket"]>>],
        [id |-> "human-approval", name |-> "Human Approval Gate", type |-> "HumanGate",
         summary |-> "Routes critical tickets for human approval before action",
         inputs |-> <<[from |-> "severity-classifier", name |-> "classified_ticket"]>>,
         outputs |-> <<[name |-> "approved_ticket"]>>],
        [id |-> "jira-creator", name |-> "Jira Ticket Creator", type |-> "ToolExecutor",
         summary |-> "Creates a Jira ticket with extracted details and severity",
         inputs |-> <<[from |-> "human-approval", name |-> "approved_ticket"]>>,
         outputs |-> <<[name |-> "jira_issue"]>>],
        [id |-> "slack-notifier", name |-> "Slack Notifier", type |-> "Notifier",
         summary |-> "Posts notification to the support channel with ticket link",
         inputs |-> <<[from |-> "jira-creator", name |-> "jira_issue"]>>,
         outputs |-> <<[name |-> "notification_sent"]>>]>>,
     edges |-> <<
        [from |-> "email-ingester", to |-> "detail-extractor", data |-> "raw_email"],
        [from |-> "detail-extractor", to |-> "severity-classifier", data |-> "ticket_details"],
        [from |-> "severity-classifier", to |-> "human-approval", data |-> "classified_ticket"],
        [from |-> "human-approval", to |-> "jira-creator", data |-> "approved_ticket"],
        [from |-> "jira-creator", to |-> "slack-notifier", data |-> "jira_issue"]>>,
     dataSchemas |->
        ("raw_email" :> [fields |-> <<"from", "to", "subject", "body", "timestamp">>]
            @@ "ticket_details" :> [fields |-> <<"sender", "subject", "description", "urgency_keywords">>]
            @@ "severity" :> [fields |-> <<"level", "confidence">>]
            @@ "jira_issue" :> [fields |-> <<"key", "url", "summary", "priority">>])]

LeadQualificationTemplate ==
    [version |-> "0.1",
     title |-> "Lead Qualification Pipeline",
     description |-> "Collect inbound form submissions, enrich with Clearbit, score the lead, route to AE if score > 80, create a CRM record, and email a personalized intro.",
     agents |-> <<
        [id |-> "form-collector", name |-> "Form Submission Collector", type |-> "Retriever",
         summary |-> "Collects inbound lead form submissions from the website",
         inputs |-> <<[name |-> "form_webhook"]>>,
         outputs |-> <<[name |-> "lead_submission"]>>],
        [id |-> "clearbit-enricher", name |-> "Clearbit Enricher", type |-> "Retriever",
         summary |-> "Enriches lead data with company and person info from Clearbit",
         inputs |-> <<[from |-> "form-collector", name |-> "lead_submission"]>>,
         outputs |-> <<[name |-> "enriched_lead"]>>],
        [id |-> "lead-scorer", name |-> "Lead Scorer", type |-> "Classifier",
         summary |-> "Scores the lead based on company size, role, and engagement signals",
         inputs |-> <<[from |-> "clearbit-enricher", name |-> "enriched_lead"]>>,
         outputs |-> <<[name |-> "scored_lead"]>>],
        [id |-> "ae-router", name |-> "AE Router", type |-> "Classifier",
         summary |-> "Routes high-scoring leads (>80) to an Account Executive",
         inputs |-> <<[from |-> "lead-scorer", name |-> "scored_lead"]>>,
         outputs |-> <<[name |-> "routed_lead"]>>],
        [id |-> "crm-creator", name |-> "CRM Record Creator", type |-> "ToolExecutor",
         summary |-> "Creates or updates a lead record in the CRM",
         inputs |-> <<[from |-> "ae-router", name |-> "routed_lead"]>>,
         outputs |-> <<[name |-> "crm_record"]>>],
        [id |-> "intro-emailer", name |-> "Personalized Intro Emailer", type |-> "Generator",
         summary |-> "Generates and sends a personalized intro email to the lead",
         inputs |-> <<[from |-> "crm-creator", name |-> "crm_record"]>>,
         outputs |-> <<[name |-> "email_sent"]>>]>>,
     edges |-> <<
        [from |-> "form-collector", to |-> "clearbit-enricher", data |-> "lead_submission"],
        [from |-> "clearbit-enricher", to |-> "lead-scorer", data |-> "enriched_lead"],
        [from |-> "lead-scorer", to |-> "ae-router", data |-> "scored_lead"],
        [from |-> "ae-router", to |-> "crm-creator", data |-> "routed_lead"],
        [from |-> "crm-creator", to |-> "intro-emailer", data |-> "crm_record"]>>,
     dataSchemas |->
        ("lead_submission" :> [fields |-> <<"email", "name", "company", "message">>]
            @@ "enriched_lead" :> [fields |-> <<"email", "name", "company", "title", "employees", "industry">>]
            @@ "scored_lead" :> [fields |-> <<"lead", "score", "score_breakdown">>]
            @@ "crm_record" :> [fields |-> <<"id", "url", "owner">>])]

WeeklyReportTemplate ==
    [version |-> "0.1",
     title |-> "Weekly Report Generator",
     description |-> "Fetch metrics from analytics and billing, summarize key changes, generate a short natural-language report, and email it to the team.",
     agents |-> <<
        [id |-> "analytics-fetcher", name |-> "Analytics Metrics Fetcher", type |-> "Retriever",
         summary |-> "Fetches weekly metrics from the analytics platform",
         inputs |-> <<[name |-> "analytics_api"]>>,
         outputs |-> <<[name |-> "analytics_data"]>>],
        [id |-> "billing-fetcher", name |-> "Billing Metrics Fetcher", type |-> "Retriever",
         summary |-> "Fetches revenue and billing data from the billing system",
         inputs |-> <<[name |-> "billing_api"]>>,
         outputs |-> <<[name |-> "billing_data"]>>],
        [id |-> "change-summarizer", name |-> "Change Summarizer", type |-> "Extractor",
         summary |-> "Identifies and summarizes key changes week-over-week",
         inputs |-> <<[from |-> "analytics-fetcher", name |-> "analytics_data"], [from |-> "billing-fetcher", name |-> "billing_data"]>>,
         outputs |-> <<[name |-> "change_summary"]>>],
        [id |-> "report-generator", name |-> "Report Generator", type |-> "Generator",
         summary |-> "Generates a natural-language weekly report with key highlights",
         inputs |-> <<[from |-> "change-summarizer", name |-> "change_summary"]>>,
         outputs |-> <<[name |-> "report_draft"]>>],
        [id |-> "team-emailer", name |-> "Team Emailer", type |-> "Notifier",
         summary |-> "Sends the generated report to the team via email",
         inputs |-> <<[from |-> "report-generator", name |-> "report_draft"]>>,
         outputs |-> <<[name |-> "email_sent"]>>]>>,
     edges |-> <<
        [from |-> "analytics-fetcher", to |-> "change-summarizer", data |-> "analytics_data"],
        [from |-> "billing-fetcher", to |-> "change-summarizer", data |-> "billing_data"],
        [from |-> "change-summarizer", to |-> "report-generator", data |-> "change_summary"],
        [from |-> "report-generator", to |-> "team-emailer", data |-> "report_draft"]>>,
     dataSchemas |->
        ("analytics_data" :> [fields |-> <<"pageviews", "sessions", "users", "conversion_rate">>]
            @@ "billing_data" :> [fields |-> <<"mrr", "churn", "new_revenue", "renewals">>]
            @@ "change_summary" :> [fields |-> <<"highlights", "concerns", "trends">>]
            @@ "report_draft" :> [fields |-> <<"title", "body", "bullet_points">>])]

CANNED_TEMPLATES ==
    [key \in {"support-triage", "lead-qualification", "weekly-report"} |->
        CASE key = "support-triage" -> SupportTriageTemplate
          [] key = "lead-qualification" -> LeadQualificationTemplate
          [] OTHER -> WeeklyReportTemplate]

\* A value that is a plan, undefined or an inherited member: kind tells
\* which, NoPlan fills the plan field of the values that are no plan
NoPlan == [version |-> "", title |-> "", description |-> "", agents |-> <<>>, edges |-> <<>>]

Value(kind, key, p) == [kind |-> kind, key |-> key, plan |-> p]

Undefined == Value("undefined", "", NoPlan)

\* return CANNED_TEMPLATES[templateId]
getTemplate(templateId) ==
    IF templateId \in DOMAIN CANNED_TEMPLATES
    THEN Value("plan", templateId, CANNED_TEMPLATES[templateId])
    ELSE IF templateId \in ObjectPrototypeKeys
    THEN Value("inherited", templateId, NoPlan)
    ELSE Undefined

\* /\b(word|word|...)\b/i.test(step), given the step in lower case
hasWord(lowered, word) ==
    \E i \in 1..(Len(lowered) - Len(word) + 1) :
        /\ SubSeq(lowered, i, i + Len(word) - 1) = word
        /\ i = 1 \/ ~IsWordChar(charAt(lowered, i - 1))
        /\ i + Len(word) > Len(lowered) \/ ~IsWordChar(charAt(lowered, i + Len(word)))

\* /\b(create.*report)\b/i.test(step), given the step in lower case
hasCreateReport(lowered) ==
    \E i \in 1..Len(lowered) : \E j \in (i + 6)..(Len(lowered) - 5) :
        /\ SubSeq(lowered, i, i + 5) = "create"
        /\ SubSeq(lowered, j, j + 5) = "report"
        /\ i = 1 \/ ~IsWordChar(charAt(lowered, i - 1))
        /\ j + 6 > Len(lowered) \/ ~IsWordChar(charAt(lowered, j + 6))
        /\ \A k \in (i + 6)..(j - 1) : charAt(lowered, k) \notin {"\n", "\r"}

VERB_TO_AGENT_TYPE ==
    << [words |-> {"ingest", "fetch", "collect", "retrieve", "get", "load", "pull"},
        createReport |-> FALSE, type |-> "Retriever"],
       [words |-> {"parse", "extract", "scrape", "read"},
        createReport |-> FALSE, type |-> "Extractor"],
       [words |-> {"decide", "route", "classify", "categorize", "score", "rank", "filter"},
        createReport |-> FALSE, type |-> "Classifier"],
       [words |-> {"create", "update", "write", "insert", "post", "put", "delete", "call"},
        createReport |-> FALSE, type |-> "ToolExecutor"],
       [words |-> {"summarize", "draft", "write", "generate", "compose"},
        createReport |-> TRUE, type |-> "Generator"],
       [words |-> {"approv", "review", "confirm", "human", "manual", "escalate"},
        createReport |-> FALSE, type |-> "HumanGate"],
       [words |-> {"notify", "alert", "email", "slack", "send", "message"},
        createReport |-> FALSE, type |-> "Notifier"],
       [words |-> {"enrich", "augment", "lookup", "clearbit", "external"},
        createReport |-> FALSE, type |-> "Retriever"] >>

\* The regex of an entry, which ignores case, tested on the step in lower case
regexTest(entry, lowered) ==
    \/ \E word \in entry.words : hasWord(lowered, word)
    \/ entry.createReport /\ hasCreateReport(lowered)

\* The type of the first of the matching entries, Generator when none matches
firstType(matching) ==
    IF matching = {} THEN "Generator"
    ELSE VERB_TO_AGENT_TYPE[CHOOSE n \in matching : \A k \in matching : n <= k].type

matchingEntries(lowered) ==
    {n \in DOMAIN VERB_TO_AGENT_TYPE : regexTest(VERB_TO_AGENT_TYPE[n], lowered)}

inferAgentType(step) == firstType(matchingEntries(toLowerCase(step)))

\* words[n] || dflt, with a 0-based n
wordOr(words, n, dflt) ==
    IF n + 1 \in DOMAIN words /\ words[n + 1] # "" THEN words[n + 1] ELSE dflt

\* `${capitalize(verb)} ${capitalize(object)} ${type}`.substring(0, 30)
agentNameOf(verb, joined, type) ==
    substring0(capitalize(verb) \o " " \o capitalize(IF joined # "" THEN joined ELSE "Data")
                   \o " " \o type, 30)

agentNameOfWords(words, type) ==
    agentNameOf(wordOr(words, 0, ""), join(slice(words, 1, 3), " "), type)

generateAgentName(step, type) == agentNameOfWords(split(step, <<Ws1>>), type)

nouns ==
    <<"email", "data", "ticket", "lead", "report", "record", "message", "result",
      "response", "notification">>

verbToOutput ==
    [verb \in {"ingest", "fetch", "collect", "extract", "parse", "classify", "route", "score",
               "create", "update", "generate", "summarize", "notify", "email", "approve"} |->
        CASE verb = "ingest" -> "raw_data"
          [] verb = "fetch" -> "fetched_data"
          [] verb = "collect" -> "collected_data"
          [] verb = "extract" -> "extracted_info"
          [] verb = "parse" -> "parsed_data"
          [] verb = "classify" -> "classification"
          [] verb = "route" -> "routed_data"
          [] verb = "score" -> "scored_data"
          [] verb = "create" -> "created_record"
          [] verb = "update" -> "updated_record"
          [] verb = "generate" -> "generated_content"
          [] verb = "summarize" -> "summary"
          [] verb = "notify" -> "notification"
          [] verb = "email" -> "email_sent"
          [] OTHER -> "approved_data"]

\* The first noun of the list found in a word, or the output of the verb
outputNameOf(found, verb, index) ==
    IF found # {}
    THEN nouns[CHOOSE n \in found : \A k \in found : n <= k] \o "_output"
    ELSE IF verb \in DOMAIN verbToOutput THEN verbToOutput[verb]
    ELSE IF verb \in ObjectPrototypeKeys THEN Inherited(verb)
    ELSE "step_" \o ToString(index + 1) \o "_output"

outputNameOfWords(words, index) ==
    outputNameOf({n \in DOMAIN nouns : \E w \in DOMAIN words : includes(words[w], nouns[n])},
                 wordOr(words, 0, "process"), index)

\* index is the 0-based position of the step
generateOutputName(step, index) == outputNameOfWords(split(toLowerCase(step), <<Ws1>>), index)

generateTitle(description) ==
    substring0(capitalize(join(slice(split(description, <<Ws1>>), 0, 5), " ")), 50)
        \o " Workflow"

\* p.trim().replace(/\.$/, "")
stripStep(p) ==
    LET t == trim(p)
    IN IF Len(t) > 0 /\ charAt(t, Len(t)) = "." THEN SubSeq(t, 1, Len(t) - 1) ELSE t

\* parts.map((p) => p.trim().replace(/\.$/, ""))
stripSteps(parts) == [n \in DOMAIN parts |-> stripStep(parts[n])]

parseSteps(description) ==
    stripSteps(SelectSeq(
        split(replaceAll(
                  replaceAll(
                      replaceAll(
                          replaceAll(
                              replaceAll(description,
                                         <<Lit(","), Ws0, Lit("and"), Ws1, Lit("then"), Ws0>>,
                                         ", "),
                              <<Ws1, Lit("and"), Ws1, Lit("then"), Ws1>>, ", "),
                          <<Ws1, Lit("then"), Ws1>>, ", "),
                      <<Lit("."), Ws1>>, ", "),
                  <<Lit(","), Ws0, Lit("and"), Ws1>>, ", "),
              <<Lit(","), Ws0>>),
        LAMBDA s : Len(trim(s)) > 3))

\* Variant: the one agent hands its output to itself
minimalPlanWithLoop(description) ==
    [version |-> "0.1",
     title |-> "Custom Workflow",
     description |-> description,
     agents |-> << [id |-> "orchestrator", name |-> "Workflow Orchestrator",
                    type |-> "Orchestrator",
                    summary |-> "Coordinates the workflow execution",
                    inputs |-> <<[name |-> "input_data"]>>,
                    outputs |-> <<[name |-> "output_data"]>>] >>,
     edges |-> <<[from |-> "orchestrator", to |-> "orchestrator", data |-> "output_data"]>>]

minimalPlan(description) ==
    [version |-> "0.1",
     title |-> "Custom Workflow",
     description |-> description,
     agents |-> << [id |-> "orchestrator", name |-> "Workflow Orchestrator",
                    type |-> "Orchestrator",
                    summary |-> "Coordinates the workflow execution",
                    inputs |-> <<[name |-> "input_data"]>>,
                    outputs |-> <<[name |-> "output_data"]>>] >>,
     edges |-> <<>>]

\* Variant: the input of agent-i names the agent two steps back
makeAgentTwoBack(i, step, type, prevOutput) ==
    [id |-> "agent-" \o ToString(i),
     name |-> generateAgentName(step, type),
     type |-> type,
     summary |-> capitalize(trim(step)),
     inputs |-> IF i > 1
                THEN <<[from |-> "agent-" \o ToString(i - 2), name |-> prevOutput]>>
                ELSE <<[name |-> "input_data"]>>,
     outputs |-> <<[name |-> generateOutputName(step, i - 1)]>>]

\* The agent built for a step: i is 1-based here (agent-i in the code),
\* prevOutput is the output name of the previous step
makeAgent(i, step, type, prevOutput) ==
    [id |-> "agent-" \o ToString(i),
     name |-> generateAgentName(step, type),
     type |-> type,
     summary |-> capitalize(trim(step)),
     inputs |-> IF i > 1
                THEN <<[from |-> "agent-" \o ToString(i - 1), name |-> prevOutput]>>
                ELSE <<[name |-> "input_data"]>>,
     outputs |-> <<[name |-> generateOutputName(step, i - 1)]>>]

\* steps[i - 1] ? generateOutputName(steps[i - 1], i - 1) : "data"
prevOutputName(steps, i) ==
    IF i > 1 /\ steps[i - 1] # "" THEN generateOutputName(steps[i - 1], i - 2) ELSE "data"

stepAgent(steps, i) == makeAgent(i, steps[i], inferAgentType(steps[i]), prevOutputName(steps, i))

\* Variant: the edge carries the output name of its target
stepEdgeOwnOutput(steps, i) ==
    [from |-> "agent-" \o ToString(i - 1), to |-> "agent-" \o ToString(i),
     data |-> generateOutputName(steps[i], i - 1)]

\* The edge from the previous agent into agent-i, for i > 1
stepEdge(steps, i) ==
    [from |-> "agent-" \o ToString(i - 1), to |-> "agent-" \o ToString(i),
     data |-> generateOutputName(steps[i - 1], i - 2)]

typeToFields ==
    [type \in {"Orchestrator", "Retriever", "Extractor", "Classifier", "Generator",
               "ToolExecutor", "HumanGate", "Notifier"} |->
        CASE type = "Orchestrator" -> <<"status", "timestamp", "metadata">>
          [] type = "Retriever" -> <<"raw_content", "source", "timestamp">>
          [] type = "Extractor" -> <<"extracted_fields", "confidence", "raw_text">>
          [] type = "Classifier" -> <<"category", "score", "confidence">>
          [] type = "Generator" -> <<"generated_text", "model_used", "tokens">>
          [] type = "ToolExecutor" -> <<"result", "status_code", "api_response">>
          [] type = "HumanGate" -> <<"decision", "approver", "comments">>
          [] OTHER -> <<"sent_at", "recipient", "channel">>]

\* typeToFields[type] || ["data", "status"]
generateFields(step, type) ==
    IF type \in DOMAIN typeToFields THEN typeToFields[type] ELSE <<"data", "status">>

\* The output names of the steps, in step order
outputNames(steps) == [i \in DOMAIN steps |-> generateOutputName(steps[i], i - 1)]

\* dataSchemas[outputName] = { fields: generateFields(step, type) } for the
\* steps in order: a later step with the same output name overwrites the
\* entry.  A name that is no string is the key it is converted to.
dataSchemasOf(steps, names) ==
    [name \in {names[i] : i \in DOMAIN names} |->
        [fields |->
            generateFields(
                steps[CHOOSE i \in DOMAIN names :
                         names[i] = name /\ \A k \in DOMAIN names : names[k] = name => k <= i],
                inferAgentType(
                    steps[CHOOSE i \in DOMAIN names :
                             names[i] = name
                                 /\ \A k \in DOMAIN names : names[k] = name => k <= i]))]]

planFromSteps(description, steps) ==
    IF Len(steps) = 0 THEN minimalPlan(description)
    ELSE [version |-> "0.1",
          title |-> generateTitle(description),
          description |-> description,
          agents |-> [i \in DOMAIN steps |-> stepAgent(steps, i)],
          edges |-> [k \in 1..(Len(steps) - 1) |-> stepEdge(steps, k + 1)],
          dataSchemas |-> dataSchemasOf(steps, outputNames(steps))]

\* Variant: the pairs are tested in the opposite order
templateByKeywordsLastFirst(lowerDesc) ==
    IF includes(lowerDesc, "weekly") /\ includes(lowerDesc, "report") THEN "weekly-report"
    ELSE IF includes(lowerDesc, "lead") /\ includes(lowerDesc, "qualif")
    THEN "lead-qualification"
    ELSE IF includes(lowerDesc, "support") /\ includes(lowerDesc, "triage")
    THEN "support-triage"
    ELSE ""

templateByKeywords(lowerDesc) ==
    IF includes(lowerDesc, "support") /\ includes(lowerDesc, "triage") THEN "support-triage"
    ELSE IF includes(lowerDesc, "lead") /\ includes(lowerDesc, "qualif")
    THEN "lead-qualification"
    ELSE IF includes(lowerDesc, "weekly") /\ includes(lowerDesc, "report") THEN "weekly-report"
    ELSE ""

planOrTemplate(description, key) ==
    IF key # "" THEN CANNED_TEMPLATES[key] ELSE planFromSteps(description, parseSteps(description))

\* Variant: the plan remembers how many calls were made before it
planFromDescriptionCounting(description) ==
    [planOrTemplate(description, templateByKeywords(toLowerCase(description)))
        EXCEPT !.title = @ \o " " \o ToString(Len(history))]

planFromDescription(description) ==
    planOrTemplate(description, templateByKeywords(toLowerCase(description)))

(***************************************************************************)
(* Schema of a plan (lib/spec: ZAgentPlan) and the route POST /api/plan    *)
(***************************************************************************)
ZAgentType ==
    {"Orchestrator", "Retriever", "Extractor", "Classifier", "Generator", "ToolExecutor",
     "HumanGate", "Notifier"}

\* typeof of a value found where a string is expected
jsTypeOf(v) ==
    IF IsJsString(v) THEN "string" ELSE IF v = Inherited("__proto__") THEN "object" ELSE "function"

\* Issues of z.string().min(1) at a path, in the route's `${path}: ${message}` form
stringIssues(path, v) ==
    IF ~IsJsString(v) THEN <<path \o ": Expected string, received " \o jsTypeOf(v)>>
    ELSE IF Len(v) < 1 THEN <<path \o ": String must contain at least 1 character(s)">>
    ELSE <<>>

inputIssues(path, input) ==
    (IF "from" \in DOMAIN input /\ ~IsJsString(input.from)
     THEN <<path \o ".from: Expected string, received " \o jsTypeOf(input.from)>>
     ELSE <<>>)
    \o stringIssues(path \o ".name", input.name)

agentIssues(path, agent) ==
    stringIssues(path \o ".id", agent.id)
    \o stringIssues(path \o ".name", agent.name)
    \o (IF agent.type \in ZAgentType THEN <<>> ELSE <<path \o ".type: Invalid enum value">>)
    \o stringIssues(path \o ".summary", agent.summary)
    \o Flatten([k \in DOMAIN agent.inputs |->
           inputIssues(path \o ".inputs." \o ToString(k - 1), agent.inputs[k])])
    \o Flatten([k \in DOMAIN agent.outputs |->
           stringIssues(path \o ".outputs." \o ToString(k - 1) \o ".name",
                        agent.outputs[k].name)])

edgeIssues(path, edge) ==
    stringIssues(path \o ".from", edge.from)
    \o stringIssues(path \o ".to", edge.to)
    \o stringIssues(path \o ".data", edge.data)

\* Issues of ZAgentPlan for a plan object, each path below prefix
planIssues(prefix, p) ==
    (IF p.version = "0.1" THEN <<>>
     ELSE <<prefix \o "version: Invalid literal value, expected \"0.1\"">>)
    \o stringIssues(prefix \o "title", p.title)
    \o stringIssues(prefix \o "description", p.description)
    \o (IF Len(p.agents) < 1
        THEN <<prefix \o "agents: Array must contain at least 1 element(s)">>
        ELSE Flatten([k \in DOMAIN p.agents |->
                 agentIssues(prefix \o "agents." \o ToString(k - 1), p.agents[k])]))
    \o Flatten([k \in DOMAIN p.edges |->
           edgeIssues(prefix \o "edges." \o ToString(k - 1), p.edges[k])])

NotCalled == Value("notcalled", "", NoPlan)

\* ZAgentPlan.safeParse(plan).error.errors in the route's form (empty on success)
ZAgentPlanIssues(value) ==
    CASE value.kind = "plan" -> planIssues("", value.plan)
      [] value.kind = "inherited" /\ value.key = "__proto__" ->
           <<"version: Invalid literal value, expected \"0.1\"", "title: Required",
             "description: Required", "agents: Required", "edges: Required">>
      [] value.kind = "inherited" -> <<": Expected object, received function">>
      [] OTHER -> <<": Required">>

\* Values of the fields of a JSON request body
Str(s) == [type |-> "string", value |-> s]
Num(s) == [type |-> "number", value |-> s]

\* Variant: no minimum length of the description
RequestSchemaIssuesNoMin(req) ==
    IF ~req.object THEN <<"Expected object, received null">>
    ELSE (IF "description" \notin DOMAIN req.body THEN <<"Required">>
          ELSE IF req.body.description.type # "string"
          THEN <<"Expected string, received " \o req.body.description.type>>
          ELSE <<>>)
         \o (IF "templateId" \in DOMAIN req.body /\ req.body.templateId.type # "string"
             THEN <<"Expected string, received " \o req.body.templateId.type>>
             ELSE <<>>)

\* RequestSchema.safeParse(body).error.errors.map(e => e.message)
RequestSchemaIssues(req) ==
    IF ~req.object THEN <<"Expected object, received null">>
    ELSE (IF "description" \notin DOMAIN req.body THEN <<"Required">>
          ELSE IF req.body.description.type # "string"
          THEN <<"Expected string, received " \o req.body.description.type>>
          ELSE IF Len(req.body.description.value) < 10
          THEN <<"Description must be at least 10 characters">>
          ELSE <<>>)
         \o (IF "templateId" \in DOMAIN req.body /\ req.body.templateId.type # "string"
             THEN <<"Expected string, received " \o req.body.templateId.type>>
             ELSE <<>>)

NoResponse == [status |-> 0]

NoCalls ==
    [getTemplate |-> NotCalled, planFromDescription |-> FALSE, schemaIssues |-> <<>>,
     schemaChecked |-> FALSE]

\* if (templateId)
templateGiven(body) == "templateId" \in DOMAIN body /\ body.templateId.value # ""

Handled(res, made, validation) == [response |-> res, calls |-> made, validation |-> validation]

\* After validatePlan: 400 with its errors and warnings, or the plan
afterValidation(made, value, validation) ==
    IF ~validation.ok
    THEN Handled([status |-> 400, errors |-> validation.errors,
                  warnings |-> validation.warnings], made, validation)
    ELSE Handled([status |-> 200, plan |-> value.plan, warnings |-> validation.warnings],
                 made, validation)

\* After ZAgentPlan.safeParse: 400 with its issues, or on to validatePlan
afterSchema(made, value, issues) ==
    IF issues # <<>>
    THEN Handled([status |-> 400, errors |-> issues],
                 [made EXCEPT !.schemaIssues = issues, !.schemaChecked = TRUE], NoResult)
    ELSE afterValidation([made EXCEPT !.schemaChecked = TRUE], value, validatePlan(value.plan))

\* After getTemplate: 400 for a falsy value, or on to the schema
afterGetTemplate(templateId, looked) ==
    IF looked.kind = "undefined"
    THEN Handled([status |-> 400, errors |-> <<"Unknown template: " \o templateId>>],
                 [NoCalls EXCEPT !.getTemplate = looked], NoResult)
    ELSE afterSchema([NoCalls EXCEPT !.getTemplate = looked], looked, ZAgentPlanIssues(looked))

afterPlanFromDescription(value) ==
    afterSchema([NoCalls EXCEPT !.planFromDescription = TRUE], value, ZAgentPlanIssues(value))

\* After RequestSchema.safeParse: 400 with its messages, or get the plan
afterRequestSchema(req, issues) ==
    IF issues # <<>> THEN Handled([status |-> 400, errors |-> issues], NoCalls, NoResult)
    ELSE IF templateGiven(req.body)
    THEN afterGetTemplate(req.body.templateId.value, getTemplate(req.body.templateId.value))
    ELSE afterPlanFromDescription(
             Value("plan", "", planFromDescription(req.body.description.value)))

\* The handler: the response, with the calls it made and the validation
\* result; a body that is not JSON makes request.json() throw
POST(req) ==
    IF ~req.json
    THEN Handled([status |-> 500, errors |-> <<"Failed to generate plan. Please try again.">>],
                 NoCalls, NoResult)
    ELSE afterRequestSchema(req, RequestSchemaIssues(req))

(***************************************************************************)
(* Frontend: createPlan, usePlanMutation and the App callbacks             *)
(***************************************************************************)
\* What the fetch of createPlan ends with: a network failure, or an HTTP
\* response whose body is JSON (the fields of response besides status) or not;
\* the member isNull stands for the JSON body `null`
Reply(failed, json, res) == [failed |-> failed, json |-> json, response |-> res]

IsNull(data) == "isNull" \in DOMAIN data

\* ZPlanResponse.safeParse(data).error.errors as `${path}: ${message}`
ZPlanResponseIssues(data) ==
    IF IsNull(data) THEN <<": Expected object, received null">>
    ELSE IF "plan" \in DOMAIN data THEN planIssues("plan.", data.plan)
    ELSE <<"plan: Required">>

\* An exception of a class, with the status and errors an ApiError carries
Thrown(class, status, errors) ==
    [ok |-> FALSE, plan |-> NoPlan, warnings |-> <<>>, status |-> status, errors |-> errors,
     thrown |-> class]

Failure(status, errors) == Thrown("ApiError", status, errors)

Success(p, warnings) ==
    [ok |-> TRUE, plan |-> p, warnings |-> warnings, status |-> 200, errors |-> <<>>,
     thrown |-> "none"]

\* if (!response.ok): the ApiError of an error body, or of any other body,
\* where reading data.message of null raises a TypeError
createPlanNotOk(res) ==
    IF IsNull(res) THEN Thrown("TypeError", 0, <<>>)
    ELSE IF "errors" \in DOMAIN res THEN Failure(res.status, res.errors)
    ELSE Failure(res.status, <<>>)

\* The try block of createPlan from the moment the fetch settles: fetch
\* rejects with a TypeError, response.json() with a SyntaxError
createPlanTry(reply) ==
    IF reply.failed THEN Thrown("TypeError", 0, <<>>)
    ELSE IF ~reply.json THEN Thrown("SyntaxError", 0, <<>>)
    ELSE IF ~(reply.response.status \in 200..299) THEN createPlanNotOk(reply.response)
    ELSE IF ZPlanResponseIssues(reply.response) # <<>>
    THEN Failure(200, ZPlanResponseIssues(reply.response))
    ELSE Success(reply.response.plan,
                 IF "warnings" \in DOMAIN reply.response THEN reply.response.warnings ELSE <<>>)

\* Variant: only a failed fetch is turned into an ApiError
createPlanCatchFetchOnly(reply, outcome) ==
    IF outcome.thrown = "TypeError" /\ reply.failed THEN Failure(0, <<>>) ELSE outcome

\* The catch block of createPlan: an ApiError is thrown again, anything else
\* becomes an ApiError of status 0
createPlanCatch(reply, outcome) ==
    IF outcome.thrown \in {"none", "ApiError"} THEN outcome ELSE Failure(0, <<>>)

\* createPlan from the moment the fetch settles: the PlanResponse returned
\* or the error thrown (its class, status and errors)
createPlan(reply) == createPlanCatch(reply, createPlanTry(reply))

\* Variant: the response is returned without looking at validation.ok
mutationFnNoThrow(reply) ==
    LET created == createPlan(reply)
    IN IF ~created.ok THEN created
       ELSE Success(created.plan,
                    created.warnings \o clientValidatePlan(created.plan).warnings)

\* mutationFn of usePlanMutation from the moment the fetch settles
mutationFn(reply) ==
    LET created == createPlan(reply)
        validation == clientValidatePlan(created.plan)
        allWarnings == created.warnings \o validation.warnings
    IN IF ~created.ok THEN created
       ELSE IF ~validation.ok THEN Failure(400, validation.errors)
       ELSE Success(created.plan, allWarnings)

\* App state after useState: no plan, no warnings, no selection; isPending is
\* planMutation.isPending, the state of the mutation started last
NoApp ==
    [hasPlan |-> FALSE, plan |-> NoPlan, warnings |-> <<>>, selectedNodeId |-> "",
     toast |-> "none", isPending |-> FALSE]

\* Variant: the selection outlives the plan it was made in
onSuccessKeepingSelection(a, data) ==
    [hasPlan |-> TRUE, plan |-> data.plan, warnings |-> data.warnings,
     selectedNodeId |-> a.selectedNodeId,
     toast |-> IF Len(data.warnings) > 0 THEN "warning" ELSE "success",
     isPending |-> a.isPending]

\* onSuccess of the App
onSuccess(a, data) ==
    [hasPlan |-> TRUE, plan |-> data.plan, warnings |-> data.warnings, selectedNodeId |-> "",
     toast |-> IF Len(data.warnings) > 0 THEN "warning" ELSE "success",
     isPending |-> a.isPending]

\* onError of the App
onError(a, error) == [a EXCEPT !.toast = "error"]

(***************************************************************************)
(* Requests and messages between the clients and the route                 *)
(***************************************************************************)
EmptyBody == [field \in {} |-> Str("")]

DescriptionPool ==
    << "too short",
       "          ",
       "a, b, c, d, e, f",
       "Fetch metrics, then summarize changes",
       "Parse logs and then classify them. Notify me",
       "Ingest files, and route them",
       "constructor the pipeline",
       "Extract names then __proto__ them",
       "support ticket triage",
       "Qualify every inbound LEAD",
       "weekly report please",
       "Update the CRM" >>

TemplateIdPool ==
    << "", "support-triage", "lead-qualification", "weekly-report", "unknown-template",
       "constructor", "__proto__", "toString" >>

\* The description member of a body: absent, not a string, or a string
DescriptionFields ==
    <<EmptyBody, "description" :> Num("42")>>
        \o [n \in DOMAIN DescriptionPool |-> "description" :> Str(DescriptionPool[n])]

TemplateIdFields ==
    <<EmptyBody, "templateId" :> Num("7")>>
        \o [n \in DOMAIN TemplateIdPool |-> "templateId" :> Str(TemplateIdPool[n])]

Request(json, object, body) == [json |-> json, object |-> object, body |-> body]

NoRequest == Request(FALSE, FALSE, EmptyBody)

Message(client, req) ==
    [client |-> client, request |-> req, answered |-> FALSE, response |-> NoResponse]

\* The request of another client: a body that is not JSON, JSON that is no
\* object, or an object with or without each member
OtherClientSends(flight) ==
    \/ flight = <<Message("other", Request(FALSE, FALSE, EmptyBody))>>
    \/ flight = <<Message("other", Request(TRUE, FALSE, EmptyBody))>>
    \/ \E d \in DOMAIN DescriptionFields : \E t \in DOMAIN TemplateIdFields :
          flight = <<Message("other",
                             Request(TRUE, TRUE, DescriptionFields[d] @@ TemplateIdFields[t]))>>

NoForm == [description |-> ""]

\* The disabled state of the Plan Workflow button: isDisabled, or isLoading
PlanButtonDisabled(f, isLoading) == Len(trim(f.description)) < 10 \/ isLoading

\* PromptForm.handleSubmit: whether onSubmit is called, and with what
handleSubmitUntrimmed(f) ==
    [called |-> Len(f.description) >= 10, description |-> f.description]

handleSubmit(f) ==
    [called |-> ~(Len(trim(f.description)) < 10), description |-> f.description]

(***************************************************************************)
(* Input plans                                                             *)
(***************************************************************************)
\* Agent ids and display names, in declaration order.  "a:b" contains the
\* separator of the consumedOutputs keys.
IdPool == <<"a", "a:b", "z", "q">>
NamePool == <<"A", "B", "Z", "Q">>
Ghost == "ghost"                 \* an id no agent has
SlotPool == {"c", "b:c"}         \* output slot / edge data names

ids(n) == {IdPool[i] : i \in 1..n}

EdgeSet(froms, tos, datas) ==
    {[from |-> f, to |-> t, data |-> d] : f \in froms, t \in tos, d \in datas}

\* n agents; ins and outs are sequences of placements [agent, ...] that give
\* agent number `agent` one more input or output, in order
InputsAt(ins, i) ==
    LET mine == SelectSeq(ins, LAMBDA x : x.agent = i)
    IN [k \in DOMAIN mine |-> mine[k].input]

OutputsAt(outs, i) ==
    LET mine == SelectSeq(outs, LAMBDA x : x.agent = i)
    IN [k \in DOMAIN mine |-> [name |-> mine[k].name]]

MakePlan(n, ins, outs, edges) ==
    [agents |-> [i \in 1..n |->
                    [id |-> IdPool[i], name |-> NamePool[i],
                     inputs |-> InputsAt(ins, i), outputs |-> OutputsAt(outs, i)]],
     edges |-> edges]

OneOutputEach(n) == [i \in 1..n |-> [agent |-> i, name |-> "c"]]

\* Graphs over existing agents: every edge list of up to MaxEdges edges
GraphPlan(p) ==
    \E n \in 1..MaxAgents : \E k \in 0..MaxEdges :
        \E es \in [1..k -> EdgeSet(ids(n), ids(n), {"c"})] :
            p = MakePlan(n, <<>>, OneOutputEach(n), es)

\* Graphs with edges that may name the unknown id at either end
DanglingPlan(p) ==
    \E n \in 1..(MaxAgents - 1) : \E k \in 0..(MaxEdges - 1) :
        \E es \in [1..k -> EdgeSet(ids(n) \cup {Ghost}, ids(n) \cup {Ghost}, {"c"})] :
            p = MakePlan(n, <<>>, OneOutputEach(n), es)

\* Inputs: a root input (no from), an empty from, a from naming an agent or
\* naming no agent; with no edge, a dangling edge or a self-loop
InputChoices(n) ==
    {[name |-> "in"], [from |-> "", name |-> "in"]}
        \cup {[from |-> f, name |-> "in"] : f \in ids(n) \cup {Ghost}}

InputPlan(p) ==
    \E n \in 1..(MaxAgents - 1) : \E k \in 0..MaxInputs :
        \E ins \in [1..k -> {[agent |-> i, input |-> c] : i \in 1..n, c \in InputChoices(n)}] :
            \E es \in {<<>>, <<[from |-> IdPool[1], to |-> Ghost, data |-> "c"]>>,
                       <<[from |-> IdPool[1], to |-> IdPool[1], data |-> "c"]>>} :
                p = MakePlan(n, ins, OneOutputEach(n), es)

\* Outputs: the agents "a" and "a:b" with up to MaxOutputs output slots and
\* up to MaxOutputs edges carrying a slot name
OutputPlan(p) ==
    \E k \in 0..MaxOutputs : \E m \in 0..MaxOutputs :
        \E outs \in [1..k -> {[agent |-> i, name |-> s] : i \in 1..2, s \in SlotPool}] :
            \E es \in [1..m -> EdgeSet(ids(2), {IdPool[1]}, SlotPool)] :
                p = MakePlan(Len(SubSeq(IdPool, 1, 2)), <<>>, outs, es)

ValidatorPlan(p) == GraphPlan(p) \/ DanglingPlan(p) \/ InputPlan(p) \/ OutputPlan(p)

(***************************************************************************)
(* Validation: one call of either validatePlan on an input plan            *)
(***************************************************************************)
\* Nothing in flight, nothing handled, the frontend as mounted
Idle ==
    /\ inflight = <<>>
    /\ request = NoRequest
    /\ response = NoResponse
    /\ calls = NoCalls
    /\ app = NoApp
    /\ form = NoForm
    /\ diagram = NoDiagram
    /\ loop = NoLoop
    /\ history = <<>>

InitValidate ==
    /\ ValidatorPlan(plan)
    /\ result = NoResult
    /\ layout = NoLayout
    /\ Idle

ServerValidate ==
    /\ ~result.called
    /\ result' = validatePlan(plan)
    /\ UNCHANGED <<loop, diagram, history, plan, layout, systemVars>>

ClientValidate ==
    /\ ~result.called
    /\ result' = clientValidatePlan(plan)
    /\ UNCHANGED <<loop, diagram, history, plan, layout, systemVars>>

NextValidate == ServerValidate \/ ClientValidate

SpecValidate == InitValidate /\ [][NextValidate]_vars

(***************************************************************************)
(* Layout: one call of either planToReactFlow on an input plan             *)
(***************************************************************************)
InitLayout ==
    /\ GraphPlan(plan) \/ DanglingPlan(plan)
    /\ result = NoResult
    /\ layout = NoLayout
    /\ Idle

PlannerLayout ==
    /\ ~layout.called
    /\ layout' = planToReactFlow(plan)
    /\ UNCHANGED <<loop, diagram, history, plan, result, systemVars>>

FrontendLayout ==
    /\ ~layout.called
    /\ layout' = frontendPlanToReactFlow(plan)
    /\ UNCHANGED <<loop, diagram, history, plan, result, systemVars>>

NextLayout == PlannerLayout \/ FrontendLayout

SpecLayout == InitLayout /\ [][NextLayout]_vars

(***************************************************************************)
(* Requests to the route: one request of some client, answered by POST     *)
(***************************************************************************)
InitRoute ==
    /\ OtherClientSends(inflight)
    /\ request = NoRequest
    /\ response = NoResponse
    /\ calls = NoCalls
    /\ result = NoResult
    /\ plan = NoPlan
    /\ layout = NoLayout
    /\ app = NoApp
    /\ form = NoForm
    /\ diagram = NoDiagram
    /\ loop = NoLoop
    /\ history = <<>>

\* The state after the route handled message i
Answered(i, handled) ==
    /\ inflight' = [inflight EXCEPT ![i].answered = TRUE, ![i].response = handled.response]
    /\ request' = inflight[i].request
    /\ response' = handled.response
    /\ calls' = handled.calls
    /\ result' = handled.validation

\* The route answers a request in flight
HandlePOST ==
    \E i \in DOMAIN inflight :
        /\ ~inflight[i].answered
        /\ Answered(i, POST(inflight[i].request))
        /\ UNCHANGED <<loop, diagram, history, plan, layout, app, form>>

NextRoute == HandlePOST

SpecRoute == InitRoute /\ [][NextRoute]_vars

(***************************************************************************)
(* The App: the form submits, the route or another backend answers, the    *)
(* mutation settles                                                        *)
(***************************************************************************)
MaxInFlight == 2

\* What the user may have typed into the form
FormPool ==
    <<"          ", "Fetch metrics, then summarize changes", "Update the CRM">>

\* A plan of the input families with the members the schema asks for
Decorate(p, version) ==
    [version |-> version, title |-> "T", description |-> "D",
     agents |-> [i \in DOMAIN p.agents |->
                    [id |-> p.agents[i].id, name |-> p.agents[i].name, type |-> "Generator",
                     summary |-> "S", inputs |-> p.agents[i].inputs,
                     outputs |-> p.agents[i].outputs]],
     edges |-> p.edges]

Edge(from, to, data) == [from |-> from, to |-> to, data |-> data]

ChainPlan == MakePlan(2, <<>>, OneOutputEach(2), <<Edge(IdPool[1], IdPool[2], "c")>>)

OrphanPlan ==
    MakePlan(2, <<>>, <<[agent |-> 1, name |-> "c"], [agent |-> 1, name |-> "d"]>>,
             <<Edge(IdPool[1], IdPool[2], "c")>>)

CyclicPlan ==
    MakePlan(2, <<>>, OneOutputEach(2),
             <<Edge(IdPool[1], IdPool[2], "c"), Edge(IdPool[2], IdPool[1], "c")>>)

DanglingEdgePlan == MakePlan(1, <<>>, OneOutputEach(1), <<Edge(IdPool[1], Ghost, "c")>>)

DanglingInputPlan ==
    MakePlan(1, <<[agent |-> 1, input |-> [from |-> Ghost, name |-> "in"]]>>,
             OneOutputEach(1), <<>>)

\* What a backend other than the route may answer, or a failed fetch
ForeignReplies ==
    << Reply(TRUE, FALSE, NoResponse),
       Reply(FALSE, FALSE, [status |-> 502]),
       Reply(FALSE, TRUE, [status |-> 400, errors |-> <<"bad request">>]),
       Reply(FALSE, TRUE, [status |-> 500, message |-> "boom"]),
       Reply(FALSE, TRUE, [status |-> 200, errors |-> <<>>]),
       Reply(FALSE, TRUE, [status |-> 200, plan |-> Decorate(ChainPlan, "0.2")]),
       Reply(FALSE, TRUE, [status |-> 200, plan |-> Decorate(ChainPlan, "0.1")]),
       Reply(FALSE, TRUE, [status |-> 200, plan |-> Decorate(OrphanPlan, "0.1"),
                           warnings |-> <<"from the backend">>]),
       Reply(FALSE, TRUE, [status |-> 200, plan |-> Decorate(CyclicPlan, "0.1"),
                           warnings |-> <<>>]),
       Reply(FALSE, TRUE, [status |-> 200, plan |-> Decorate(DanglingEdgePlan, "0.1")]),
       Reply(FALSE, TRUE, [status |-> 200, plan |-> Decorate(DanglingInputPlan, "0.1")]) >>

InitApp ==
    /\ plan = NoPlan
    /\ result = NoResult
    /\ layout = NoLayout
    /\ Idle

\* PromptForm: the textarea changes, or an example is clicked
SetDescription ==
    /\ \E n \in DOMAIN FormPool : form' = [description |-> FormPool[n]]
    /\ UNCHANGED <<loop, diagram, history, plan, result, layout, inflight, request, response,
                   calls, app>>

\* onSubmit of the form: App.handleSubmit, mutate and the fetch of createPlan
Submitted(submit) ==
    /\ submit.called
    /\ Len(inflight) < MaxInFlight
    /\ inflight' = Append(inflight,
                          Message("app", Request(TRUE, TRUE,
                                                 "description" :> Str(submit.description))))
    /\ app' = [app EXCEPT !.isPending = TRUE]

\* A click on the Plan Workflow button, which is not disabled
ClickPlanWorkflow ==
    /\ ~PlanButtonDisabled(form, app.isPending)
    /\ Submitted(handleSubmit(form))
    /\ UNCHANGED <<loop, diagram, history, plan, result, layout, request, response, calls, form>>

\* Ctrl/Cmd+Enter in the description field: handleKeyDown
CtrlEnter ==
    /\ Submitted(handleSubmit(form))
    /\ UNCHANGED <<loop, diagram, history, plan, result, layout, request, response, calls, form>>

RemoveAt(s, i) == SubSeq(s, 1, i - 1) \o SubSeq(s, i + 1, Len(s))

\* The App after the mutation settled with an outcome
settle(a, outcome) == IF outcome.ok THEN onSuccess(a, outcome) ELSE onError(a, outcome)

\* The request of the mutation started last, when that one is still pending
StartedLast(flight, i) ==
    /\ flight[i].client = "app"
    /\ \A j \in DOMAIN flight : flight[j].client = "app" => j <= i

Call(op, input, output) == [op |-> op, input |-> input, output |-> output]

\* The mutation that ended last: the callback of the App it called and, when
\* it succeeded, the response that createPlan had returned to it
Mutation(created, outcome) ==
    IF outcome.ok
    THEN Call("mutate", [plan |-> created.plan, warnings |-> created.warnings], "onSuccess")
    ELSE Call("mutate", [error |-> "ApiError"], "onError")

\* The mutation of request i ends with an outcome and calls its callback
SettledWith(i, created, outcome) ==
    /\ app' = [settle(app, outcome)
                  EXCEPT !.isPending = app.isPending /\ ~StartedLast(inflight, i)]
    /\ inflight' = RemoveAt(inflight, i)
    /\ history' = <<Mutation(created, outcome)>>

\* The fetch of request i settles with a reply and the mutation runs to its end
Settled(i, reply) == SettledWith(i, createPlan(reply), mutationFn(reply))

\* The answer of the route arrives
ReceiveFromRoute ==
    /\ \E i \in DOMAIN inflight :
          /\ inflight[i].client = "app"
          /\ inflight[i].answered
          /\ Settled(i, Reply(FALSE, TRUE, inflight[i].response))
    /\ UNCHANGED <<loop, diagram, plan, result, layout, request, response, calls, form>>

\* What createPlan and mutationFn make of each of these replies
ForeignCreated == [n \in DOMAIN ForeignReplies |-> createPlan(ForeignReplies[n])]

ForeignOutcomes == [n \in DOMAIN ForeignReplies |-> mutationFn(ForeignReplies[n])]

\* Another backend answers, or the fetch fails
ReceiveFromElsewhere ==
    /\ \E i \in DOMAIN inflight : \E n \in DOMAIN ForeignReplies :
          /\ inflight[i].client = "app"
          /\ ~inflight[i].answered
          /\ SettledWith(i, ForeignCreated[n], ForeignOutcomes[n])
    /\ UNCHANGED <<loop, diagram, plan, result, layout, request, response, calls, form>>

\* App.handleNodeSelect with the id of a node of the canvas, handleDrawerClose with none
SelectNode ==
    /\ app.hasPlan
    /\ \E id \in {app.plan.agents[i].id : i \in DOMAIN app.plan.agents} \cup {""} :
          app' = [app EXCEPT !.selectedNodeId = id]
    /\ UNCHANGED <<loop, diagram, history, plan, result, layout, inflight, request, response,
                   calls, form>>

NextApp ==
    \/ SetDescription
    \/ ClickPlanWorkflow
    \/ CtrlEnter
    \/ HandlePOST
    \/ ReceiveFromRoute
    \/ ReceiveFromElsewhere
    \/ SelectNode

SpecApp == InitApp /\ [][NextApp]_vars

(***************************************************************************)
(* The library called repeatedly: a caller that holds a plan calls         *)
(* planFromDescription, either validatePlan and either planToReactFlow in  *)
(* any order, and every call is recorded with its argument and its result  *)
(***************************************************************************)
MaxCalls == 3


\* What the caller asks the planner for
RepeatPool == <<"", "Fetch metrics, then summarize changes", "weekly report please">>

\* The plans the caller may hold before it asks the planner
RepeatPlans ==
    {Decorate(OrphanPlan, "0.1"), Decorate(CyclicPlan, "0.1"),
     Decorate(DanglingInputPlan, "0.1")}

InitRepeat ==
    /\ plan \in RepeatPlans
    /\ result = NoResult
    /\ layout = NoLayout
    /\ Idle

\* The call returned: it is appended to the record of calls
Returned(op, input, output) ==
    /\ Len(history) < MaxCalls
    /\ history' = Append(history, Call(op, input, output))

\* planFromDescription returned `made`, which the caller holds from now on
Planned(description, made) ==
    /\ Returned("planFromDescription", description, made)
    /\ plan' = made

RepeatPlanFromDescription ==
    /\ \E n \in DOMAIN RepeatPool : Planned(RepeatPool[n], planFromDescription(RepeatPool[n]))
    /\ UNCHANGED <<loop, diagram, result, layout, systemVars>>

\* validatePlan returned `validation`; the function writes to nothing but
\* its own errors, warnings, sets and maps, so the plan is as it was
Validated(validation) ==
    /\ Returned("validatePlan:" \o validation.by, plan, validation)
    /\ result' = validation

RepeatServerValidate ==
    /\ Validated(validatePlan(plan))
    /\ UNCHANGED <<loop, diagram, plan, layout, systemVars>>

RepeatClientValidate ==
    /\ Validated(clientValidatePlan(plan))
    /\ UNCHANGED <<loop, diagram, plan, layout, systemVars>>

\* planToReactFlow returned `laid`; the function pushes to arrays it made
\* itself and copies each agent into the node data
Laid(laid) ==
    /\ Returned("planToReactFlow:" \o laid.by, plan, laid)
    /\ layout' = laid

RepeatPlannerLayout ==
    /\ Laid(planToReactFlow(plan))
    /\ UNCHANGED <<loop, diagram, plan, result, systemVars>>

RepeatFrontendLayout ==
    /\ Laid(frontendPlanToReactFlow(plan))
    /\ UNCHANGED <<loop, diagram, plan, result, systemVars>>

NextRepeat ==
    \/ RepeatPlanFromDescription
    \/ RepeatServerValidate
    \/ RepeatClientValidate
    \/ RepeatPlannerLayout
    \/ RepeatFrontendLayout

SpecRepeat == InitRepeat /\ [][NextRepeat]_vars

(***************************************************************************)
(* The planner called once: planFromDescription on a description, or       *)
(* getTemplate on a key, and validatePlan on the plan that came back       *)
(***************************************************************************)
MaxSteps == 3

\* Steps a description is made of: with and without a verb of the tables,
\* with a noun of the list, and with a verb that names an inherited member
StepPool ==
    <<"fetch metrics", "summarize changes", "constructor the pipeline", "Notify me",
      "email the team", "ship it">>

\* The delimiters parseSteps knows
SeparatorPool == <<", ", " then ", " and then ", ". ", ", and ", ",and then ">>

\* n steps starting at step number `first` of the pool, joined by the
\* delimiters in turn
RECURSIVE Chain(_, _)
Chain(first, n) ==
    IF n = 1 THEN StepPool[first]
    ELSE Chain(first, n - 1)
             \o SeparatorPool[((first + n) % Len(SeparatorPool)) + 1]
             \o StepPool[((first + n - 2) % Len(StepPool)) + 1]

\* Descriptions that name no template: one step, every pair of steps with
\* every delimiter, and longer chains
StepDescriptions ==
    {StepPool[a] : a \in DOMAIN StepPool}
        \cup {StepPool[a] \o SeparatorPool[s] \o StepPool[b] :
                 a \in DOMAIN StepPool, s \in DOMAIN SeparatorPool, b \in DOMAIN StepPool}
        \cup {Chain(a, n) : a \in DOMAIN StepPool, n \in 3..MaxSteps}

\* Descriptions without a piece of more than 3 characters
NoStepDescriptions == {"", "   ", "abc", "a, b, c", "ab. cd", "x then y", "go, and do"}

\* Descriptions that name one template or several
TemplateDescriptions ==
    {"support ticket triage", "Qualify every inbound LEAD", "weekly report please",
     "Weekly REPORT on Support Triage", "triage the support queue, then report weekly",
     "weekly lead qualification report", "qualify leads, triage support",
     "Report weekly: qualified leads and the triage of support tickets",
     "unsupported triages", "weekly reports", "misleading qualifiers"}

PlannerDescriptions == StepDescriptions \cup NoStepDescriptions \cup TemplateDescriptions

InitPlanner ==
    /\ plan = NoPlan
    /\ result = NoResult
    /\ layout = NoLayout
    /\ Idle

PlanFromDescriptionOnce ==
    /\ history = <<>>
    /\ \E d \in PlannerDescriptions : Planned(d, planFromDescription(d))
    /\ UNCHANGED <<loop, diagram, result, layout, systemVars>>

\* getTemplate returned `looked`: the caller holds the plan if it is one
Looked(templateId, looked) ==
    /\ Returned("getTemplate", templateId, looked)
    /\ plan' = looked.plan

GetTemplateOnce ==
    /\ history = <<>>
    /\ \E n \in DOMAIN TemplateIdPool : Looked(TemplateIdPool[n], getTemplate(TemplateIdPool[n]))
    /\ UNCHANGED <<loop, diagram, result, layout, systemVars>>

\* The plan that came back from the planner is validated
ValidatePlanned ==
    /\ history # <<>>
    /\ ~result.called
    /\ history[1].op = "getTemplate" => history[1].output.kind = "plan"
    /\ RepeatServerValidate

NextPlanner == PlanFromDescriptionOnce \/ GetTemplateOnce \/ ValidatePlanned

SpecPlanner == InitPlanner /\ [][NextPlanner]_vars

(***************************************************************************)
(* Diagram export: one call of a diagram function on a plan whose ids,     *)
(* names, summaries and data names hold characters of the diagram notation *)
(***************************************************************************)
DiagramIds == <<"My/Agent", "a-b", "a_b">>
DiagramNames == <<"Say \"hi\"", "List [a]", "Plain Name">>

\* Summaries of 13, 38 and 52 characters: below both limits of truncate,
\* between them, and above both
DiagramSummaries ==
    <<"Short summary", "Summary of thirty-eight characters ok!",
      "A [long] summary that \"goes\" beyond forty characters">>

DiagramData == <<"raw_data", "rows[0]", "the \"key\"">>
DiagramTypes == <<"Retriever", "Generator", "HumanGate">>

\* Element number k of the pool, counting round
Pick(pool, k) == pool[((k - 1) % Len(pool)) + 1]

\* n agents and the edges between the given ends; v shifts the names,
\* summaries, types and data names given to them
MakeDiagramPlan(n, v, ends) ==
    [agents |-> [i \in 1..n |->
                    [id |-> DiagramIds[i], name |-> Pick(DiagramNames, i + v),
                     type |-> Pick(DiagramTypes, i + v),
                     summary |-> Pick(DiagramSummaries, i + v),
                     inputs |-> <<>>, outputs |-> <<>>]],
     edges |-> [j \in DOMAIN ends |->
                   [from |-> ends[j][1], to |-> ends[j][2], data |-> Pick(DiagramData, j + v)]]]

DiagramPlan(p) ==
    \E n \in 1..(MaxAgents - 1) : \E v \in 1..Len(DiagramNames) : \E k \in 0..(MaxEdges - 1) :
        \E ends \in [1..k -> {DiagramIds[i] : i \in 1..n} \X {DiagramIds[i] : i \in 1..n}] :
            p = MakeDiagramPlan(n, v, ends)

InitDiagram ==
    /\ DiagramPlan(plan)
    /\ result = NoResult
    /\ layout = NoLayout
    /\ Idle

\* The function returned `drawing`; it reads the plan and writes to its own
\* lines array only
Drawn(drawing) ==
    /\ diagram' = drawing
    /\ UNCHANGED <<loop, history, plan, result, layout, systemVars>>

PlannerMermaid ==
    /\ ~diagram.called
    /\ Drawn(planToMermaid(plan))

FrontendMermaid ==
    /\ ~diagram.called
    /\ Drawn(frontendPlanToMermaid(plan))

PlannerSequenceDiagram ==
    /\ ~diagram.called
    /\ Drawn(planToSequenceDiagram(plan))

FrontendSequenceDiagram ==
    /\ ~diagram.called
    /\ Drawn(frontendPlanToSequenceDiagram(plan))

NextDiagram ==
    \/ PlannerMermaid
    \/ FrontendMermaid
    \/ PlannerSequenceDiagram
    \/ FrontendSequenceDiagram

SpecDiagram == InitDiagram /\ [][NextDiagram]_vars

(***************************************************************************)
(* The API client called once: the fetch of createPlan has settled with    *)
(* a reply, and createPlan or the mutation function runs to its end        *)
(***************************************************************************)
\* HTTP statuses a backend may answer with
StatusPool == <<200, 201, 299, 300, 400, 404, 500, 503>>

\* JSON bodies a backend may answer with, as the members beside the status
BodyPool ==
    << [isNull |-> TRUE],
       EmptyBody,
       [errors |-> <<"bad request">>],
       [errors |-> <<>>, warnings |-> <<"w">>],
       [message |-> "boom"],
       [plan |-> Decorate(ChainPlan, "0.1")],
       [plan |-> Decorate(OrphanPlan, "0.1"), warnings |-> <<"from the backend">>],
       [plan |-> Decorate(ChainPlan, "0.2")],
       [plan |-> Decorate(CyclicPlan, "0.1"), warnings |-> <<>>] >>

WithStatus(status, body) == [status |-> status] @@ body

ClientReplies ==
    {Reply(TRUE, FALSE, NoResponse)}
        \cup {Reply(FALSE, FALSE, WithStatus(StatusPool[s], EmptyBody)) : s \in DOMAIN StatusPool}
        \cup {Reply(FALSE, TRUE, WithStatus(StatusPool[s], BodyPool[b])) :
                 s \in DOMAIN StatusPool, b \in DOMAIN BodyPool}

InitClient ==
    /\ plan = NoPlan
    /\ result = NoResult
    /\ layout = NoLayout
    /\ inflight = <<>>
    /\ request = NoRequest
    /\ response = NoResponse
    /\ calls = NoCalls
    /\ app = NoApp
    /\ form = NoForm
    /\ diagram = NoDiagram
    /\ loop = NoLoop
    /\ \E reply \in ClientReplies : history = <<Call("fetch", "/plan", reply)>>

\* createPlan runs from the settled fetch to its end
CreatePlanOnce ==
    /\ Len(history) = 1
    /\ history' = Append(history, Call("createPlan", history[1].output,
                                       createPlan(history[1].output)))
    /\ UNCHANGED <<loop, diagram, plan, result, layout, inflight, request, response, calls,
                   app, form>>

\* The mutation function runs from the settled fetch to its end
MutationFnOnce ==
    /\ Len(history) = 1
    /\ history' = Append(history, Call("mutationFn", history[1].output,
                                       mutationFn(history[1].output)))
    /\ UNCHANGED <<loop, diagram, plan, result, layout, inflight, request, response, calls,
                   app, form>>

NextClient ==
    \/ CreatePlanOnce
    \/ MutationFnOnce

SpecClient == InitClient /\ [][NextClient]_vars

(***************************************************************************)
(* The level assignment step by step: each planToReactFlow builds its     *)
(* maps, runs one iteration of its while loop at a time and, when the      *)
(* queue is empty, groups and places the agents.  The function of the      *)
(* planner app is called first and runs to its end, then the one of the    *)
(* frontend.                                                               *)
(***************************************************************************)
\* The run when the while loop is reached: the roots are on the queue
Started(st) ==
    [phase |-> "running", st |-> st, pushed |-> st.queue, shifted |-> <<>>,
     result |-> NoLayout]

\* The run after one iteration that led from run.st to next
Iterated(run, next) ==
    [run EXCEPT !.st = next,
                !.shifted = Append(@, Head(run.st.queue)),
                !.pushed = @ \o SubSeq(next.queue, Len(run.st.queue), Len(next.queue))]

\* The run after the loop: the agents are grouped by level and placed
Finished(run, by, nodes, edges) ==
    [run EXCEPT !.phase = "done",
                !.result = [called |-> TRUE, by |-> by, nodes |-> nodes, edges |-> edges]]

InitLevels ==
    /\ GraphPlan(plan) \/ DanglingPlan(plan)
    /\ result = NoResult
    /\ layout = NoLayout
    /\ Idle

PlannerStart ==
    /\ loop.planner.phase = "idle"
    /\ loop' = [loop EXCEPT !.planner = Started(startLevels(plan))]
    /\ UNCHANGED <<diagram, history, plan, result, layout, systemVars>>

PlannerIterate ==
    /\ loop.planner.phase = "running"
    /\ Len(loop.planner.st.queue) > 0
    /\ loop' = [loop EXCEPT !.planner =
                   Iterated(@, processCurrent(layoutAdjacency(plan), @.st, FALSE))]
    /\ UNCHANGED <<diagram, history, plan, result, layout, systemVars>>

PlannerFinish ==
    /\ loop.planner.phase = "running"
    /\ ~(Len(loop.planner.st.queue) > 0)
    /\ loop' = [loop EXCEPT !.planner =
                   Finished(@, "planner",
                            layoutNodes(plan, @.st.levels, NODE_WIDTH, NODE_HEIGHT,
                                        HORIZONTAL_GAP, VERTICAL_GAP),
                            layoutEdges(plan))]
    /\ UNCHANGED <<diagram, history, plan, result, layout, systemVars>>

FrontendStart ==
    /\ loop.frontend.phase = "idle"
    /\ loop.planner.phase = "done"
    /\ loop' = [loop EXCEPT !.frontend = Started(startLevels(plan))]
    /\ UNCHANGED <<diagram, history, plan, result, layout, systemVars>>

FrontendIterate ==
    /\ loop.frontend.phase = "running"
    /\ Len(loop.frontend.st.queue) > 0
    /\ loop' = [loop EXCEPT !.frontend =
                   Iterated(@, processCurrent(layoutAdjacency(plan), @.st, TRUE))]
    /\ UNCHANGED <<diagram, history, plan, result, layout, systemVars>>

FrontendFinish ==
    /\ loop.frontend.phase = "running"
    /\ ~(Len(loop.frontend.st.queue) > 0)
    /\ loop' = [loop EXCEPT !.frontend =
                   Finished(@, "frontend",
                            layoutNodes(plan, @.st.levels, FRONTEND_NODE_WIDTH,
                                        FRONTEND_NODE_HEIGHT, FRONTEND_HORIZONTAL_GAP,
                                        FRONTEND_VERTICAL_GAP),
                            layoutEdges(plan))]
    /\ UNCHANGED <<diagram, history, plan, result, layout, systemVars>>

NextLevels ==
    \/ PlannerStart
    \/ PlannerIterate
    \/ PlannerFinish
    \/ FrontendStart
    \/ FrontendIterate
    \/ FrontendFinish

SpecLevels == InitLevels /\ [][NextLevels]_vars

(***************************************************************************)
(* The level assignment on small plans, for what every run must reach:     *)
(* the same steps, on every edge list of up to MaxLoopEdges edges over up  *)
(* to MaxLoopAgents agents, and on one agent with edges that may name the  *)
(* unknown id at either end                                                *)
(***************************************************************************)
MaxLoopAgents == 2
MaxLoopEdges == 2

LoopPlan(p) ==
    \/ \E n \in 1..MaxLoopAgents : \E k \in 0..MaxLoopEdges :
          \E es \in [1..k -> EdgeSet(ids(n), ids(n), {"c"})] :
              p = MakePlan(n, <<>>, OneOutputEach(n), es)
    \/ \E k \in 1..MaxLoopEdges :
          \E es \in [1..k -> EdgeSet(ids(1) \cup {Ghost}, ids(1) \cup {Ghost}, {"c"})] :
              p = MakePlan(1, <<>>, OneOutputEach(1), es)

InitLoop ==
    /\ LoopPlan(plan)
    /\ result = NoResult
    /\ layout = NoLayout
    /\ Idle

\* A call that was made runs on: JavaScript runs each of the two functions
\* to its end
SpecLoop == InitLoop /\ [][NextLevels]_vars /\ WF_vars(NextLevels)

\* The step-by-step runs end with what the functions return
LevelsAgreeWithFunctions ==
    /\ loop.planner.phase = "done" => loop.planner.result = planToReactFlow(plan)
    /\ loop.frontend.phase = "done" => loop.frontend.result = frontendPlanToReactFlow(plan)

(***************************************************************************)
(* Reference notions the claims are stated with                            *)
(***************************************************************************)
\* The arcs of the directed graph: edges between two agents of the plan
GraphArcs(p) ==
    {<<p.edges[i].from, p.edges[i].to>> : i \in
        {k \in DOMAIN p.edges : p.edges[k].from \in agentIds(p) /\ p.edges[k].to \in agentIds(p)}}

Successors(S, arcs) == {a[2] : a \in {x \in arcs : x[1] \in S}}

RECURSIVE Closure(_, _)
Closure(S, arcs) ==
    IF Successors(S, arcs) \subseteq S THEN S ELSE Closure(S \cup Successors(S, arcs), arcs)

\* n reaches itself by one arc or more
OnCycle(n, arcs) == n \in Closure(Successors({n}, arcs), arcs)

HasDirectedCycle(p) == \E n \in agentIds(p) : OnCycle(n, GraphArcs(p))

AllEdgesReferenceAgents(p) ==
    \A i \in DOMAIN p.edges : p.edges[i].from \in agentIds(p) /\ p.edges[i].to \in agentIds(p)

HasDanglingEdge(p) == ~AllEdgesReferenceAgents(p)

\* All inputs of the plan, as records [agent, input]
AllInputs(p) ==
    Flatten([i \in DOMAIN p.agents |->
        [j \in DOMAIN p.agents[i].inputs |->
            [agent |-> p.agents[i], input |-> p.agents[i].inputs[j]]]])

\* All declared output slots of the plan, as records [agent, name]
AllOutputs(p) ==
    Flatten([i \in DOMAIN p.agents |->
        [j \in DOMAIN p.agents[i].outputs |->
            [agent |-> p.agents[i], name |-> p.agents[i].outputs[j].name]]])

\* The message texts of the validator that produced r
CycleMsgOf(r) == IF r.by = "server" THEN ServerCycleMsg ELSE ClientCycleMsg
EdgeFromMsgOf(r, id) == IF r.by = "server" THEN ServerEdgeFromMsg(id) ELSE ClientEdgeFromMsg(id)
EdgeToMsgOf(r, id) == IF r.by = "server" THEN ServerEdgeToMsg(id) ELSE ClientEdgeToMsg(id)
InputMsgOf(r, x) ==
    IF r.by = "server" THEN ServerInputMsg(x.agent.name, x.input.name, x.input.from)
    ELSE ClientInputMsg(x.agent.name, x.input.name, x.input.from)
WarningMsgOf(r, x) ==
    IF r.by = "server" THEN ServerWarningMsg(x.agent.name, x.name)
    ELSE ClientWarningMsg(x.agent.name, x.name)

Occurrences(s, m) == Cardinality({i \in DOMAIN s : s[i] = m})

CycleErrorCount(r) == Occurrences(r.errors, CycleMsgOf(r))

\* The ids named at the ends of edges
EdgeEnds(p) == {p.edges[i].from : i \in DOMAIN p.edges} \cup {p.edges[i].to : i \in DOMAIN p.edges}

(***************************************************************************)
(* C1: for every plan whose edges all reference existing agents, the       *)
(* error list holds exactly one cycle error when the directed graph has a  *)
(* directed cycle (self-loops and cycles in components not reachable from  *)
(* the first agent included) and none when it is acyclic; a cyclic plan    *)
(* has ok = FALSE and an acyclic plan without sourced inputs ok = TRUE.    *)
(***************************************************************************)
C1_CycleReportedExactlyOnce ==
    (result.called /\ AllEdgesReferenceAgents(plan)) =>
        /\ CycleErrorCount(result) = (IF HasDirectedCycle(plan) THEN 1 ELSE 0)
        /\ HasDirectedCycle(plan) => ~result.ok
        /\ (~HasDirectedCycle(plan) /\ AllInputs(plan) = <<>>) => result.ok

\* A three-agent plan whose first agent has no edge at all while the other
\* two form a cycle, validated with the one cycle error reported
C1_Witness ==
    /\ result.called
    /\ Len(plan.agents) = 3
    /\ AllEdgesReferenceAgents(plan)
    /\ \A i \in DOMAIN plan.edges :
          plan.edges[i].from # plan.agents[1].id /\ plan.edges[i].to # plan.agents[1].id
    /\ \A i \in DOMAIN plan.edges : plan.edges[i].from # plan.edges[i].to
    /\ HasDirectedCycle(plan)
    /\ CycleErrorCount(result) = 1
    /\ ~result.ok

IsInputError(m) == Len(m) >= 6 /\ SubSeq(m, 1, 6) = "Agent "

InputErrorCount(r) == Cardinality({i \in DOMAIN r.errors : IsInputError(r.errors[i])})

\* As claimed: a source is declared whenever the from field is present
DeclaresUnknownSource(p, x) == "from" \in DOMAIN x.input /\ x.input.from \notin agentIds(p)

DeclaresUnknownNonEmptySource(p, x) ==
    "from" \in DOMAIN x.input /\ x.input.from # "" /\ x.input.from \notin agentIds(p)

C4_OkIffNoErrors ==
    result.called => (result.ok <=> Len(result.errors) = 0)

\* A plan with a warning and no error, accepted
C4_Witness ==
    /\ result.called
    /\ Len(result.warnings) > 0
    /\ Len(result.errors) = 0
    /\ result.ok

(***************************************************************************)
(* C5: exactly one warning for each (agent, declared output slot) such     *)
(* that the agent has an outgoing edge and no outgoing edge of that agent  *)
(* carries the slot name as data; no other warning.                        *)
(***************************************************************************)
Orphaned(p, x) ==
    /\ \E i \in DOMAIN p.edges : p.edges[i].from = x.agent.id
    /\ \A i \in DOMAIN p.edges : p.edges[i].from = x.agent.id => p.edges[i].data # x.name

C5_OneWarningPerOrphanedSlot ==
    result.called =>
        /\ Len(result.warnings) =
              Cardinality({k \in DOMAIN AllOutputs(plan) : Orphaned(plan, AllOutputs(plan)[k])})
        /\ \A k \in DOMAIN AllOutputs(plan) :
              Orphaned(plan, AllOutputs(plan)[k]) =>
                 Occurrences(result.warnings, WarningMsgOf(result, AllOutputs(plan)[k])) >= 1

(***************************************************************************)
(* Reference notions for the route                                         *)
(***************************************************************************)
TemplateKeys == {"support-triage", "lead-qualification", "weekly-report"}

RouteAnswered == response.status # 0

\* The handled request carries a description of at least 10 characters
DescriptionLongEnough ==
    /\ request.json /\ request.object
    /\ "description" \in DOMAIN request.body
    /\ request.body.description.type = "string"
    /\ Len(request.body.description.value) >= 10

TemplateIdGivenInRequest == request.object /\ "templateId" \in DOMAIN request.body

TemplateIdKnown ==
    /\ request.body.templateId.type = "string"
    /\ request.body.templateId.value \in TemplateKeys

\* The handled request passes the request schema
RequestWellFormed ==
    /\ DescriptionLongEnough
    /\ TemplateIdGivenInRequest => request.body.templateId.type = "string"

HasPlan(res) == "plan" \in DOMAIN res

HasErrors(res) == "errors" \in DOMAIN res

\* The three outcomes, success allowed only under TemplateOk
ThreeOutcomes(TemplateOk) ==
    /\ response.status \in {200, 400, 500}
    /\ response.status = 500 <=> ~request.json
    /\ response.status = 200 =>
          /\ HasPlan(response) /\ "warnings" \in DOMAIN response /\ ~HasErrors(response)
          /\ DescriptionLongEnough
          /\ TemplateOk
          /\ planIssues("", response.plan) = <<>>
          /\ result = validatePlan(response.plan)
          /\ result.ok
    /\ response.status = 400 =>
          HasErrors(response) /\ Len(response.errors) > 0 /\ ~HasPlan(response)
    /\ response.status = 500 => HasErrors(response) /\ ~HasPlan(response)

(***************************************************************************)
(* C6: a plan with a structural-integrity error (dangling edge reference,  *)
(* dangling input reference, cycle) is never accepted: after any sequence  *)
(* of requests and responses the plan held by the App is absent or a plan  *)
(* for which validatePlan returned ok, and the route never returns a plan  *)
(* in a success response when validatePlan returned ok = false.            *)
(***************************************************************************)
NoIntegrityError(p) ==
    /\ AllEdgesReferenceAgents(p)
    /\ \A n \in DOMAIN AllInputs(p) : ~DeclaresUnknownNonEmptySource(p, AllInputs(p)[n])
    /\ ~HasDirectedCycle(p)

C6_OnlyValidatedPlansAccepted ==
    /\ app.hasPlan => clientValidatePlan(app.plan).ok /\ NoIntegrityError(app.plan)
    /\ \A i \in DOMAIN inflight :
          (inflight[i].answered /\ HasPlan(inflight[i].response)) =>
              validatePlan(inflight[i].response.plan).ok
    /\ (RouteAnswered /\ HasPlan(response)) =>
          result = validatePlan(response.plan) /\ result.ok
    /\ (result.called /\ ~result.ok) => ~HasPlan(response)

\* The App keeps the plan of another backend, accepted with its two warnings,
\* after a later answer was refused, while an answer of the route that carries
\* a plan is on its way
C6_Witness ==
    /\ app.hasPlan
    /\ app.plan = Decorate(OrphanPlan, "0.1")
    /\ Len(app.warnings) = 2
    /\ app.toast = "error"
    /\ \E i \in DOMAIN inflight : inflight[i].answered /\ HasPlan(inflight[i].response)

C8_UnknownTemplateReported ==
    (/\ RouteAnswered
     /\ RequestWellFormed
     /\ TemplateIdGivenInRequest
     /\ request.body.templateId.value \notin TemplateKeys) =>
        /\ response.status = 400
        /\ response.errors = <<"Unknown template: " \o request.body.templateId.value>>
        /\ ~HasPlan(response)
        /\ ~calls.planFromDescription

(***************************************************************************)
(* C9: getTemplate(key) returns the registered canned plan when key is one *)
(* of "support-triage", "lead-qualification", "weekly-report", and returns *)
(* undefined for every other key string.                                   *)
(***************************************************************************)
C9_GetTemplateAbsentForOtherKeys ==
    calls.getTemplate.kind # "notcalled" =>
        IF request.body.templateId.value \in TemplateKeys
        THEN /\ calls.getTemplate.kind = "plan"
             /\ calls.getTemplate.plan = CANNED_TEMPLATES[request.body.templateId.value]
        ELSE calls.getTemplate.kind = "undefined"

(***************************************************************************)
(* C10: for every acyclic plan whose edges reference existing agents, the  *)
(* layout puts the source of every edge strictly to the left of its        *)
(* target: x(u) < x(v) for every edge u -> v.                              *)
(***************************************************************************)
\* The x coordinates given to the node(s) with this id
XsOf(l, id) == {l.nodes[i].x : i \in {k \in DOMAIN l.nodes : l.nodes[k].id = id}}

C10_EdgesPointRight ==
    (layout.called /\ AllEdgesReferenceAgents(plan) /\ ~HasDirectedCycle(plan)) =>
        \A i \in DOMAIN plan.edges :
            /\ XsOf(layout, plan.edges[i].from) # {}
            /\ XsOf(layout, plan.edges[i].to) # {}
            /\ \A xu \in XsOf(layout, plan.edges[i].from) :
                  \A xv \in XsOf(layout, plan.edges[i].to) : xu < xv

\* A chain of three agents laid out in three columns, left to right
C10_Witness ==
    /\ layout.called
    /\ Len(plan.agents) = 3
    /\ plan.edges = <<[from |-> IdPool[1], to |-> IdPool[2], data |-> "c"],
                      [from |-> IdPool[2], to |-> IdPool[3], data |-> "c"]>>
    /\ \E x1 \in XsOf(layout, IdPool[1]) : \E x2 \in XsOf(layout, IdPool[2]) :
          \E x3 \in XsOf(layout, IdPool[3]) : x1 = 0 /\ x1 < x2 /\ x2 < x3

(***************************************************************************)
(* Reference notions for the claims about repeated calls                   *)
(***************************************************************************)
Last(s) == s[Len(s)]

\* The step is the return of a call of one of these operations
Returns(ops) == Len(history') = Len(history) + 1 /\ Last(history').op \in ops

\* The call that returned in this step gave what every earlier call of the
\* same operation with the same argument gave
SameAsBefore ==
    \A i \in DOMAIN history :
        (history[i].op = Last(history').op /\ history[i].input = Last(history').input)
            => history[i].output = Last(history').output

\* Calls i < k < j, where i and j are calls of one operation of `ops` with
\* one argument and k is another operation or has another argument
RepeatedAround(ops) ==
    \E i, k, j \in DOMAIN history :
        /\ i < k /\ k < j
        /\ history[i].op \in ops
        /\ history[j].op = history[i].op
        /\ history[j].input = history[i].input
        /\ history[k].op # history[i].op

LayoutOps == {"planToReactFlow:planner", "planToReactFlow:frontend"}

HeightOf(l) == IF l.by = "planner" THEN NODE_HEIGHT ELSE FRONTEND_NODE_HEIGHT

GapOf(l) == IF l.by = "planner" THEN VERTICAL_GAP ELSE FRONTEND_VERTICAL_GAP

\* The nodes placed at this x, in the order of the node list
Column(l, x) == SelectSeq(l.nodes, LAMBDA n : n.x = x)

\* The ids of the agents that have a node at this x, in declaration order
DeclaredAt(p, l, x) ==
    LET there == SelectSeq(p.agents, LAMBDA a : x \in XsOf(l, a.id))
    IN [k \in DOMAIN there |-> there[k].id]

BlockHeight(l, n) == n * HeightOf(l) + (n - 1) * GapOf(l)

C12_ColumnsCentred ==
    layout.called =>
        /\ Len(layout.nodes) = Len(plan.agents)
        /\ \A x \in {layout.nodes[i].x : i \in DOMAIN layout.nodes} :
              LET col == Column(layout, x)
                  n == Len(col)
              IN /\ [k \in DOMAIN col |-> col[k].id] = DeclaredAt(plan, layout, x)
                 /\ \A k \in DOMAIN col :
                       2 * col[k].y
                           = 2 * (k - 1) * (HeightOf(layout) + GapOf(layout))
                               - BlockHeight(layout, n)
                 /\ col[1].y = -(col[n].y + HeightOf(layout))

\* Three agents share a column (the third is the target of no edge that
\* would move it), stacked top to bottom in declaration order
C12_Witness ==
    /\ layout.called
    /\ Len(plan.agents) = 3
    /\ \E x \in {layout.nodes[i].x : i \in DOMAIN layout.nodes} :
          /\ Len(Column(layout, x)) = 3
          /\ Column(layout, x)[1].id = IdPool[1]
          /\ Column(layout, x)[1].y < Column(layout, x)[2].y
          /\ Column(layout, x)[2].y < 0
          /\ Column(layout, x)[3].y > 0

(***************************************************************************)
(* Reference notions for the claims about the planner                      *)
(***************************************************************************)
\* The keyword pairs of the canned templates, in the order of the spec
KeywordPairs ==
    << [key |-> "support-triage", first |-> "support", second |-> "triage"],
       [key |-> "lead-qualification", first |-> "lead", second |-> "qualif"],
       [key |-> "weekly-report", first |-> "weekly", second |-> "report"] >>

\* The word occurs in the description, in any mix of upper and lower case
Mentions(d, w) ==
    \E i \in 1..Len(d) :
        i + Len(w) - 1 <= Len(d) /\ toLowerCase(SubSeq(d, i, i + Len(w) - 1)) = w

\* The numbers of the pairs whose two words the description mentions
PairsNamed(d) ==
    {n \in DOMAIN KeywordPairs :
        Mentions(d, KeywordPairs[n].first) /\ Mentions(d, KeywordPairs[n].second)}

\* The first call made was planFromDescription
PlannerAsked == history # <<>> /\ history[1].op = "planFromDescription"

AgentId(i) == "agent-" \o ToString(i)

(***************************************************************************)
(* C13: for a description that matches no template and yields n >= 1       *)
(* steps, planFromDescription returns n agents agent-1..agent-n in step    *)
(* order and n-1 edges, the i-th from agent-i to agent-(i+1) with the      *)
(* single output slot of agent-i as data; agent-1 has the single root      *)
(* input "input_data" without source, and agent-i for i > 1 has a single   *)
(* input sourced from agent-(i-1) and named after its output slot.         *)
(***************************************************************************)
C13_StepsBecomeAChain ==
    (/\ PlannerAsked
     /\ PairsNamed(history[1].input) = {}
     /\ Len(parseSteps(history[1].input)) >= 1) =>
        LET steps == parseSteps(history[1].input)
            made == history[1].output
            n == Len(steps)
        IN /\ Len(made.agents) = n
           /\ \A i \in 1..n :
                 /\ made.agents[i].id = AgentId(i)
                 /\ made.agents[i].summary = capitalize(trim(steps[i]))
                 /\ Len(made.agents[i].outputs) = 1
                 /\ Len(made.agents[i].inputs) = 1
           /\ Len(made.edges) = n - 1
           /\ \A i \in 1..(n - 1) :
                 /\ made.edges[i].from = AgentId(i)
                 /\ made.edges[i].to = AgentId(i + 1)
                 /\ made.edges[i].data = made.agents[i].outputs[1].name
           /\ made.agents[1].inputs[1] = [name |-> "input_data"]
           /\ \A i \in 2..n :
                 made.agents[i].inputs[1]
                     = [from |-> AgentId(i - 1), name |-> made.agents[i - 1].outputs[1].name]

\* Three steps became three agents and two edges, the edges carrying the
\* different output slots of the first and of the second agent
C13_Witness ==
    /\ PlannerAsked
    /\ history[1].input = "fetch metrics. summarize changes, and constructor the pipeline"
    /\ Len(plan.agents) = 3
    /\ plan.edges = <<[from |-> "agent-1", to |-> "agent-2", data |-> "fetched_data"],
                      [from |-> "agent-2", to |-> "agent-3", data |-> "summary"]>>
    /\ plan.agents[3].inputs = <<[from |-> "agent-2", name |-> "summary"]>>

(***************************************************************************)
(* C14: every plan returned by the planner is a valid DAG: validatePlan on *)
(* the plan planFromDescription returns for a description has ok = TRUE    *)
(* (every edge end and every input source is an agent of the plan and the  *)
(* graph has no cycle), and so has the plan getTemplate returns for each   *)
(* of the three registered keys.                                           *)
(***************************************************************************)
SourcesExist(p) ==
    \A i \in DOMAIN AllInputs(p) :
        "from" \in DOMAIN AllInputs(p)[i].input => AllInputs(p)[i].input.from \in agentIds(p)

C14_PlannerPlansAreValid ==
    (history # <<>> /\ result.called) =>
        /\ result.ok
        /\ result.errors = <<>>
        /\ AllEdgesReferenceAgents(plan)
        /\ SourcesExist(plan)
        /\ ~HasDirectedCycle(plan)

\* The plan made of three steps, the last with a verb that names an
\* inherited member, was validated and found valid
C14_Witness ==
    /\ PlannerAsked
    /\ history[1].input = "fetch metrics. summarize changes, and constructor the pipeline"
    /\ plan = history[1].output
    /\ result.called
    /\ result.ok
    /\ Len(plan.edges) = 2

(***************************************************************************)
(* C15: when the description matches no template and yields no step (the   *)
(* empty string for one), planFromDescription returns a plan with exactly  *)
(* one agent, of archetype Orchestrator, with one input without source and *)
(* one output, and no edge; validatePlan on it returns ok = TRUE with no   *)
(* error and no warning.                                                   *)
(***************************************************************************)
C15_NoStepGivesOneOrchestrator ==
    (/\ PlannerAsked
     /\ PairsNamed(history[1].input) = {}
     /\ parseSteps(history[1].input) = <<>>) =>
        /\ Len(history[1].output.agents) = 1
        /\ history[1].output.agents[1].type = "Orchestrator"
        /\ Len(history[1].output.agents[1].inputs) = 1
        /\ "from" \notin DOMAIN history[1].output.agents[1].inputs[1]
        /\ Len(history[1].output.agents[1].outputs) = 1
        /\ history[1].output.edges = <<>>
        /\ plan = history[1].output
        /\ result.called =>
              /\ result.ok
              /\ result.errors = <<>>
              /\ result.warnings = <<>>

\* The empty description gave the one-node plan, which validatePlan accepted
C15_Witness ==
    /\ PlannerAsked
    /\ history[1].input = ""
    /\ Len(plan.agents) = 1
    /\ plan.agents[1].id = "orchestrator"
    /\ result.called
    /\ result.ok

(***************************************************************************)
(* C16: when the lower-cased description holds the keyword pairs of        *)
(* several canned templates, planFromDescription returns the first in the  *)
(* order support-triage, lead-qualification, weekly-report (so a           *)
(* description with the weekly-report pair and the support-triage pair     *)
(* gives the support-triage plan); whenever a pair matches, the plan       *)
(* returned is the template and nothing of it comes from the steps of the  *)
(* description.                                                            *)
(***************************************************************************)
FirstPairNamed(d) == CHOOSE n \in PairsNamed(d) : \A k \in PairsNamed(d) : n <= k

C16_FirstTemplateWins ==
    (PlannerAsked /\ PairsNamed(history[1].input) # {}) =>
        /\ history[1].output
              = CANNED_TEMPLATES[KeywordPairs[FirstPairNamed(history[1].input)].key]
        /\ \A i \in DOMAIN history[1].output.agents :
              history[1].output.agents[i].id # AgentId(i)

\* A description of two steps that names the weekly-report pair and the
\* support-triage pair was answered with the support-triage template
C16_Witness ==
    /\ PlannerAsked
    /\ history[1].input = "triage the support queue, then report weekly"
    /\ PairsNamed(history[1].input) = {1, 3}
    /\ Len(parseSteps(history[1].input)) = 2
    /\ plan.title = "Support Ticket Triage"
    /\ Len(plan.agents) > 2

ValidateOps == {"validatePlan:server", "validatePlan:client"}

RECURSIVE LinesOf(_)
LinesOf(text) ==
    IF \A i \in 1..Len(text) : charAt(text, i) # "\n" THEN <<text>>
    ELSE LET feed == CHOOSE i \in 1..Len(text) :
                        charAt(text, i) = "\n" /\ \A k \in 1..(i - 1) : charAt(text, k) # "\n"
         IN <<SubSeq(text, 1, feed - 1)>> \o LinesOf(SubSeq(text, feed + 1, Len(text)))

AlphaNumerics == CharsOf(UpperChars) \cup CharsOf(LowerChars) \cup CharsOf(DigitChars)

\* The id with every character outside [A-Za-z0-9] replaced by "_"
RECURSIVE Identifier(_)
Identifier(id) ==
    IF id = "" THEN ""
    ELSE Identifier(SubSeq(id, 1, Len(id) - 1))
             \o (IF charAt(id, Len(id)) \in AlphaNumerics THEN charAt(id, Len(id)) ELSE "_")

StartsWith(s, prefix) == Len(prefix) <= Len(s) /\ SubSeq(s, 1, Len(prefix)) = prefix

EndsWith(s, suffix) ==
    Len(suffix) <= Len(s) /\ SubSeq(s, Len(s) - Len(suffix) + 1, Len(s)) = suffix

\* s is the prefix, some text and the suffix
Wraps(s, prefix, suffix) ==
    Len(prefix) + Len(suffix) <= Len(s) /\ StartsWith(s, prefix) /\ EndsWith(s, suffix)

\* The text of s between the prefix and the suffix
Between(s, prefix, suffix) == SubSeq(s, Len(prefix) + 1, Len(s) - Len(suffix))

\* The text holds a character that ends or opens a label of the notation
HasNotationChar(s) == \E i \in 1..Len(s) : charAt(s, i) \in {"\"", "[", "]"}

Flowchart == diagram.called /\ diagram.kind = "flowchart"

\* The identifiers of the flowchart: the node declaration, the arrow and
\* the style line of every agent and edge use the sanitized id
FlowchartIdentifiers(L, p) ==
    LET n == Len(p.agents)
        m == Len(p.edges)
    IN /\ Len(L) = 7 + 2 * n + m
       /\ \A i \in 1..n :
             /\ Wraps(L[3 + i], "  " \o Identifier(p.agents[i].id) \o "[\"", "\"]")
             /\ StartsWith(L[7 + n + m + i],
                           "  style " \o Identifier(p.agents[i].id) \o " fill:")
       /\ \A j \in 1..m :
             Wraps(L[5 + n + j], "  " \o Identifier(p.edges[j].from) \o " -->|",
                   "| " \o Identifier(p.edges[j].to))

\* The label texts of the flowchart hold no character of the notation
FlowchartLabels(L, p) ==
    LET n == Len(p.agents)
    IN /\ \A i \in 1..n :
             ~HasNotationChar(
                 Between(L[3 + i], "  " \o Identifier(p.agents[i].id) \o "[\"", "\"]"))
       /\ \A j \in DOMAIN p.edges :
             ~HasNotationChar(
                 Between(L[5 + n + j], "  " \o Identifier(p.edges[j].from) \o " -->|",
                         "| " \o Identifier(p.edges[j].to)))

(***************************************************************************)
(* C19: in the flowchart of planToMermaid the identifier of each agent is  *)
(* its id with every character outside [A-Za-z0-9] replaced by "_" (the id *)
(* "My/Agent" becomes My_Agent), the node declaration, the arrows and the  *)
(* style line use that identifier, and the label text of a node or of an   *)
(* edge holds no double quote and no square bracket, whatever the name,    *)
(* the summary or the data name hold.                                      *)
(***************************************************************************)
C19_FlowchartIdentifiersAndLabels ==
    Flowchart =>
        /\ FlowchartIdentifiers(LinesOf(diagram.text), plan)
        /\ FlowchartLabels(LinesOf(diagram.text), plan)

(***************************************************************************)
(* C20: planToSequenceDiagram emits, after the participant declarations    *)
(* and in this order, exactly one start message from User to each agent    *)
(* that is the target of no edge, in declaration order, exactly one        *)
(* message per edge from its source to its target, in edge order, and      *)
(* exactly one completion message to User from each agent that is the      *)
(* source of no edge, in declaration order; an agent without edges gets    *)
(* both a start and a completion message.                                  *)
(***************************************************************************)
SequenceDiagram == diagram.called /\ diagram.kind = "sequence"

\* The positions, in declaration order, of the agents that are the target
\* (the source) of no edge
Untargeted(p) ==
    {i \in DOMAIN p.agents : \A j \in DOMAIN p.edges : p.edges[j].to # p.agents[i].id}

Unsourced(p) ==
    {i \in DOMAIN p.agents : \A j \in DOMAIN p.edges : p.edges[j].from # p.agents[i].id}

\* How many positions of S are at or before i
RankIn(S, i) == Cardinality({k \in S : k <= i})

StartText == IF diagram.by = "planner" THEN "Start workflow" ELSE "Start"

CompleteText == IF diagram.by = "planner" THEN "Complete" ELSE "Done"

\* The lines after the empty line that ends the participant declarations
MessagesOf(L, p) == SubSeq(L, Len(p.agents) + 4, Len(L))

C20_SequenceMessages ==
    SequenceDiagram =>
        LET L == LinesOf(diagram.text)
            M == MessagesOf(L, plan)
            roots == Untargeted(plan)
            ends == Unsourced(plan)
            m == Len(plan.edges)
        IN /\ L[1] = "sequenceDiagram"
           /\ L[2] = "  participant User"
           /\ \A i \in DOMAIN plan.agents :
                 StartsWith(L[2 + i],
                            "  participant " \o Identifier(plan.agents[i].id) \o " as ")
           /\ L[Len(plan.agents) + 3] = ""
           /\ Len(M) = Cardinality(roots) + m + Cardinality(ends)
           /\ \A i \in roots :
                 M[RankIn(roots, i)]
                     = "  User->>+" \o Identifier(plan.agents[i].id) \o ": " \o StartText
           /\ \A j \in 1..m :
                 StartsWith(M[Cardinality(roots) + j],
                            "  " \o Identifier(plan.edges[j].from) \o "->>+"
                                \o Identifier(plan.edges[j].to) \o ": ")
           /\ \A i \in ends :
                 M[Cardinality(roots) + m + RankIn(ends, i)]
                     = "  " \o Identifier(plan.agents[i].id) \o "-->>-User: " \o CompleteText

\* Two agents and one edge from the first to itself: the second agent has
\* no edge and gets the only start message and the only completion message,
\* around the message of the edge
C20_Witness ==
    /\ SequenceDiagram
    /\ Len(plan.agents) = 2
    /\ plan.edges = <<[from |-> "My/Agent", to |-> "My/Agent", data |-> Pick(DiagramData, 2)]>>
    /\ Len(MessagesOf(LinesOf(diagram.text), plan)) = 3
    /\ StartsWith(MessagesOf(LinesOf(diagram.text), plan)[1], "  User->>+a_b: Start")
    /\ StartsWith(MessagesOf(LinesOf(diagram.text), plan)[2], "  My_Agent->>+My_Agent: ")
    /\ StartsWith(MessagesOf(LinesOf(diagram.text), plan)[3], "  a_b-->>-User: ")

(***************************************************************************)
(* Reference notions for the claims about the prompt form and the App      *)
(***************************************************************************)
\* The description typed into the form has fewer than 10 characters once
\* the white space around it is dropped
TooShort(f) == Len(trim(f.description)) < 10

\* The requests the App has started that have not settled yet
AppRequests(flight) == {i \in DOMAIN flight : flight[i].client = "app"}

\* The description a request of the App carries
DescriptionOf(msg) == msg.request.body.description.value

\* A step in which the App starts a request
StartsRequest == Cardinality(AppRequests(inflight')) > Cardinality(AppRequests(inflight))

(***************************************************************************)
(* C21: the prompt form never submits a description that is too short:     *)
(* whenever the trimmed description has fewer than 10 characters the Plan  *)
(* Workflow button is disabled and neither a click nor Ctrl/Cmd+Enter      *)
(* calls onSubmit; initially, with the empty description, the button is    *)
(* disabled.                                                               *)
(***************************************************************************)
C21_ShortDescriptionNeverSubmitted ==
    /\ form = NoForm /\ PlanButtonDisabled(form, app.isPending)
    /\ [](TooShort(form) => PlanButtonDisabled(form, app.isPending))
    /\ [](\A i \in AppRequests(inflight) :
             Len(trim(DescriptionOf(inflight[i]))) >= 10)
    /\ [][StartsRequest =>
            /\ ~TooShort(form)
            /\ DescriptionOf(Last(inflight')) = form.description]_vars

\* Ten blanks are typed while a request submitted earlier is on its way:
\* the button is disabled and nothing more was submitted
C21_Witness ==
    /\ form.description = "          "
    /\ Len(form.description) >= 10
    /\ TooShort(form)
    /\ PlanButtonDisabled(form, app.isPending)
    /\ Cardinality(AppRequests(inflight)) = 1

(***************************************************************************)
(* C22: createPlan has exactly two outcomes: it returns a response that    *)
(* passed ZPlanResponse validation, which happens only for an HTTP success *)
(* status, or it throws an ApiError; a non-success status, an ill-formed   *)
(* success body, a network failure or any other exception all end in an    *)
(* ApiError, never in a returned plan or in an error of another type.      *)
(***************************************************************************)
\* createPlan has run to its end on the reply of the fetch
CreatePlanReturned == Len(history) = 2 /\ history[2].op = "createPlan"

SuccessStatus(reply) == reply.response.status >= 200 /\ reply.response.status <= 299

\* The reply is an HTTP success whose JSON body passes ZPlanResponse
WellFormedSuccess(reply) ==
    /\ ~reply.failed
    /\ reply.json
    /\ SuccessStatus(reply)
    /\ ZPlanResponseIssues(reply.response) = <<>>

C22_CreatePlanTwoOutcomes ==
    CreatePlanReturned =>
        LET reply == history[2].input
            outcome == history[2].output
        IN /\ outcome.thrown \in {"none", "ApiError"}
           /\ outcome.ok <=> outcome.thrown = "none"
           /\ outcome.ok <=> WellFormedSuccess(reply)
           /\ outcome.ok => outcome.plan = reply.response.plan
           /\ ~outcome.ok => outcome.plan = NoPlan

\* A success status with a body that is no JSON: response.json() raises a
\* SyntaxError, and createPlan ends in an ApiError
C22_Witness ==
    /\ CreatePlanReturned
    /\ ~history[2].input.failed
    /\ ~history[2].input.json
    /\ history[2].input.response.status = 200
    /\ createPlanTry(history[2].input).thrown = "SyntaxError"
    /\ history[2].output.thrown = "ApiError"
    /\ ~history[2].output.ok

(***************************************************************************)
(* Reference notions for the claims about the level assignment             *)
(***************************************************************************)
\* The two runs, of the planner app and of the frontend
Runs == {loop.planner, loop.frontend}

Ended(r) == r.phase = "done"

ElementsOf(s) == {s[i] : i \in DOMAIN s}

\* How often an id occurs in a sequence of ids
TimesIn(s, id) == Cardinality({i \in DOMAIN s : s[i] = id})

\* The distance between the left edges of two neighbouring columns
ColumnStep(by) ==
    IF by = "planner" THEN NODE_WIDTH + HORIZONTAL_GAP
    ELSE FRONTEND_NODE_WIDTH + FRONTEND_HORIZONTAL_GAP

\* The agents whose in-degree has not reached 0
Stuck(p, r) == {id \in agentIds(p) : r.st.inDegree[id] # 0}

\* The agents with an edge to id that were taken from the queue
ProcessedSources(p, r, id) ==
    {p.edges[i].from : i \in {k \in DOMAIN p.edges :
                                 /\ p.edges[k].to = id
                                 /\ p.edges[k].from \in agentIds(p)
                                 /\ p.edges[k].from \in ElementsOf(r.shifted)}}

MaxOf(S) == CHOOSE m \in S : \A n \in S : n <= m

(***************************************************************************)
(* C23: given a plan whose edges contain a cycle, planToReactFlow does not *)
(* raise, and every agent whose in-degree never reaches 0 is never         *)
(* enqueued and receives no level, so that it is left unleveled, without a *)
(* computed position, in the result.                                       *)
(* As stated it fails: such an agent is given a level by every processed   *)
(* agent with an edge to it, and with or without a level it is placed, an  *)
(* agent without a level in column 0.  It holds in this form: the agent is *)
(* never enqueued, has a level exactly when a processed agent has an edge  *)
(* to it, and has a node in the column of its level or, without one, in    *)
(* column 0.                                                               *)
(***************************************************************************)
C23_Original_CycleAgentsUnplaced ==
    \A r \in Runs :
        (Ended(r) /\ HasDirectedCycle(plan)) =>
            \A id \in Stuck(plan, r) :
                /\ id \notin ElementsOf(r.pushed)
                /\ id \notin DOMAIN r.st.levels
                /\ XsOf(r.result, id) = {}

C23_CycleAgentsPlaced ==
    \A r \in Runs :
        (Ended(r) /\ HasDirectedCycle(plan)) =>
            /\ Len(r.result.nodes) = Len(plan.agents)
            /\ \A id \in Stuck(plan, r) :
                  /\ id \notin ElementsOf(r.pushed)
                  /\ id \notin ElementsOf(r.shifted)
                  /\ id \in DOMAIN r.st.levels <=> ProcessedSources(plan, r, id) # {}
                  /\ id \in DOMAIN r.st.levels =>
                        r.st.levels[id]
                            = 1 + MaxOf({r.st.levels[u] : u \in ProcessedSources(plan, r, id)})
                  /\ XsOf(r.result, id) = {GetOr0(r.st.levels, id) * ColumnStep(r.result.by)}

\* A root with an edge into a cycle of two: the first agent of the cycle has
\* level 1 and is placed in the second column, the other has no level and
\* is placed in the first column, beside the root
C23_Witness ==
    /\ Ended(loop.frontend)
    /\ Len(plan.agents) = 3
    /\ plan.edges = <<[from |-> IdPool[1], to |-> IdPool[2], data |-> "c"],
                      [from |-> IdPool[2], to |-> IdPool[3], data |-> "c"],
                      [from |-> IdPool[3], to |-> IdPool[2], data |-> "c"]>>
    /\ Stuck(plan, loop.frontend) = {IdPool[2], IdPool[3]}
    /\ loop.frontend.st.levels[IdPool[2]] = 1
    /\ IdPool[3] \notin DOMAIN loop.frontend.st.levels
    /\ XsOf(loop.frontend.result, IdPool[3]) = {0}
    /\ XsOf(loop.frontend.result, IdPool[2]) = {ColumnStep("frontend")}

(***************************************************************************)
(* C24: for every acyclic plan whose edges reference existing agents       *)
(* (parallel edges allowed), the level of an agent is 0 when it has no     *)
(* incoming edge and otherwise one more than the maximum level of its      *)
(* predecessors, that is the length of the longest path from any root to   *)
(* it; an agent is enqueued only after all its predecessors have been      *)
(* processed, and its column is x = level * (nodeWidth + horizontalGap).   *)
(***************************************************************************)
\* The agents with an edge to id
Predecessors(p, id) == {p.edges[i].from : i \in {k \in DOMAIN p.edges : p.edges[k].to = id}}

\* The number of edges of the longest path that ends at id, in an acyclic plan
RECURSIVE LongestPathTo(_, _)
LongestPathTo(p, id) ==
    IF Predecessors(p, id) = {} THEN 0
    ELSE 1 + MaxOf({LongestPathTo(p, u) : u \in Predecessors(p, id)})

WellFormedDag(p) == AllEdgesReferenceAgents(p) /\ ~HasDirectedCycle(p)

C24_LevelIsLongestPath ==
    \A r \in Runs :
        WellFormedDag(plan) =>
            /\ \A k \in DOMAIN r.pushed :
                  Predecessors(plan, r.pushed[k]) \subseteq ElementsOf(r.shifted)
            /\ Ended(r) =>
                  \A id \in agentIds(plan) :
                      /\ id \in DOMAIN r.st.levels
                      /\ Predecessors(plan, id) = {} => r.st.levels[id] = 0
                      /\ Predecessors(plan, id) # {} =>
                            r.st.levels[id]
                                = 1 + MaxOf({r.st.levels[u] : u \in Predecessors(plan, id)})
                      /\ r.st.levels[id] = LongestPathTo(plan, id)
                      /\ XsOf(r.result, id) = {r.st.levels[id] * ColumnStep(r.result.by)}

\* A diamond: the third agent is reached from the root first and enqueued
\* only after the second agent was processed, two columns to the right
C24_Witness ==
    /\ Ended(loop.planner)
    /\ Len(plan.agents) = 3
    /\ plan.edges = <<[from |-> IdPool[1], to |-> IdPool[3], data |-> "c"],
                      [from |-> IdPool[1], to |-> IdPool[2], data |-> "c"],
                      [from |-> IdPool[2], to |-> IdPool[3], data |-> "c"]>>
    /\ loop.planner.pushed = <<IdPool[1], IdPool[2], IdPool[3]>>
    /\ loop.planner.shifted = loop.planner.pushed
    /\ loop.planner.st.levels[IdPool[3]] = 2
    /\ XsOf(loop.planner.result, IdPool[3]) = {2 * ColumnStep("planner")}

(***************************************************************************)
(* C25: the level-assignment loop terminates for every finite plan with    *)
(* unique agent ids, acyclic or not, with or without edges that reference  *)
(* unknown agents: each agent id is put in the queue at most once and      *)
(* taken from it at most once, and the queue is empty when the loop ends.  *)
(***************************************************************************)
Running(r) == r.phase = "running"

C25_LevelLoopTerminates ==
    /\ [](\A r \in Runs : \A id \in agentIds(plan) :
             TimesIn(r.pushed, id) <= 1 /\ TimesIn(r.shifted, id) <= 1)
    /\ [](\A r \in Runs : Ended(r) => r.st.queue = <<>> /\ r.shifted = r.pushed)
    /\ Running(loop.planner) ~> Ended(loop.planner)
    /\ Running(loop.frontend) ~> Ended(loop.frontend)

\* A root with an edge to an agent that has an edge to itself: the root is
\* the only id that was on the queue, and both loops have ended
C25_Witness ==
    /\ Ended(loop.planner)
    /\ Ended(loop.frontend)
    /\ plan.edges = <<[from |-> IdPool[1], to |-> IdPool[2], data |-> "c"],
                      [from |-> IdPool[2], to |-> IdPool[2], data |-> "c"]>>
    /\ HasDirectedCycle(plan)
    /\ loop.planner.pushed = <<IdPool[1]>>
    /\ loop.frontend.shifted = <<IdPool[1]>>
    /\ loop.frontend.st.queue = <<>>

(***************************************************************************)
(* C26: for every plan with unique agent ids, acyclic or not, the layout   *)
(* result contains exactly one node per agent of the plan and no node for  *)
(* anything else, no two agents are given the same (x, y) position, and    *)
(* the result contains exactly one edge descriptor per plan edge, in plan  *)
(* order, with source and target equal to the edge's from and to.          *)
(***************************************************************************)
UniqueAgentIds(p) == Cardinality(agentIds(p)) = Len(p.agents)

C26_OneNodePerAgentOneEdgePerEdge ==
    (layout.called /\ UniqueAgentIds(plan)) =>
        /\ \A id \in agentIds(plan) :
              Cardinality({i \in DOMAIN layout.nodes : layout.nodes[i].id = id}) = 1
        /\ \A i \in DOMAIN layout.nodes : layout.nodes[i].id \in agentIds(plan)
        /\ \A i, j \in DOMAIN layout.nodes :
              i # j => <<layout.nodes[i].x, layout.nodes[i].y>>
                           # <<layout.nodes[j].x, layout.nodes[j].y>>
        /\ Len(layout.edges) = Len(plan.edges)
        /\ \A k \in DOMAIN plan.edges :
              /\ layout.edges[k].index = k - 1
              /\ layout.edges[k].source = plan.edges[k].from
              /\ layout.edges[k].target = plan.edges[k].to

\* Two agents on a cycle: two nodes in one column at different heights, and
\* both edges described
C26_Witness ==
    /\ layout.called
    /\ Len(plan.agents) = 2
    /\ plan.edges = <<[from |-> IdPool[1], to |-> IdPool[2], data |-> "c"],
                      [from |-> IdPool[2], to |-> IdPool[1], data |-> "c"]>>
    /\ HasDirectedCycle(plan)
    /\ Len(layout.nodes) = 2
    /\ layout.nodes[1].x = layout.nodes[2].x
    /\ layout.nodes[1].y # layout.nodes[2].y
    /\ Len(layout.edges) = 2

(***************************************************************************)
(* C27: the two implementations of the level assignment, the one that      *)
(* decrements the neighbour's in-degree before updating its level (planner *)
(* app) and the one that updates the level before decrementing (frontend   *)
(* computeLevels), assign the same level to every agent and group the      *)
(* agents into the same columns in the same order, for every plan, cyclic  *)
(* plans and plans with dangling edges included.                           *)
(***************************************************************************)
\* The ids of the nodes in the order of the result, each with the number of
\* its column
ColumnsOf(l) ==
    [i \in DOMAIN l.nodes |->
        [id |-> l.nodes[i].id, column |-> l.nodes[i].x \div ColumnStep(l.by)]]

C27_SameLevelsInBothLayouts ==
    (Ended(loop.planner) /\ Ended(loop.frontend)) =>
        /\ DOMAIN loop.planner.st.levels = DOMAIN loop.frontend.st.levels
        /\ \A id \in DOMAIN loop.planner.st.levels :
              loop.planner.st.levels[id] = loop.frontend.st.levels[id]
        /\ loop.planner.pushed = loop.frontend.pushed
        /\ ColumnsOf(loop.planner.result) = ColumnsOf(loop.frontend.result)
        /\ \A i \in DOMAIN loop.planner.result.nodes :
              loop.planner.result.nodes[i].x
                  = ColumnsOf(loop.planner.result)[i].column * ColumnStep("planner")

\* An edge to an unknown id and an edge from it: in both runs the unknown id
\* gets level 1 and passes through the queue, and the second agent, whose
\* in-degree stays 1, gets no level and stands in the first column
C27_Witness ==
    /\ Ended(loop.planner)
    /\ Ended(loop.frontend)
    /\ plan.edges = <<[from |-> IdPool[1], to |-> Ghost, data |-> "c"],
                      [from |-> Ghost, to |-> IdPool[2], data |-> "c"]>>
    /\ loop.planner.pushed = <<IdPool[1], Ghost>>
    /\ loop.frontend.pushed = <<IdPool[1], Ghost>>
    /\ loop.planner.st.levels[Ghost] = 1
    /\ loop.frontend.st.levels[Ghost] = 1
    /\ IdPool[2] \notin DOMAIN loop.frontend.st.levels
    /\ ColumnsOf(loop.frontend.result)
           = <<[id |-> IdPool[1], column |-> 0], [id |-> IdPool[2], column |-> 0]>>

(***************************************************************************)
(* C28: the server-side validatePlan (which walks the set of agent ids and *)
(* stops at the first cycle) and the client-side validatePlan (which walks *)
(* the agent list through hasCycle) agree on every plan: the same ok flag, *)
(* the same number of errors of each kind (dangling edge source, dangling  *)
(* edge target, dangling input, cycle) in the same order, and warnings for *)
(* the same (agent, output slot) pairs in the same order.                  *)
(***************************************************************************)
\* The kind of an error message of the validator that produced r
KindOf(r, m) ==
    IF m = CycleMsgOf(r) THEN "cycle"
    ELSE IF \E id \in EdgeEnds(plan) : m = EdgeFromMsgOf(r, id) THEN "source"
    ELSE IF \E id \in EdgeEnds(plan) : m = EdgeToMsgOf(r, id) THEN "target"
    ELSE IF \E n \in DOMAIN AllInputs(plan) :
               /\ "from" \in DOMAIN AllInputs(plan)[n].input
               /\ m = InputMsgOf(r, AllInputs(plan)[n])
    THEN "input"
    ELSE "other"

KindsOf(r) == [i \in DOMAIN r.errors |-> KindOf(r, r.errors[i])]

\* What the validator that was not called returns for the plan
OtherResult == IF result.by = "server" THEN clientValidatePlan(plan) ELSE validatePlan(plan)

\* Warning number i of both results is about the same output slot of the
\* same agent
SameSlotWarned(r, o, i) ==
    \E n \in DOMAIN AllOutputs(plan) :
        /\ r.warnings[i] = WarningMsgOf(r, AllOutputs(plan)[n])
        /\ o.warnings[i] = WarningMsgOf(o, AllOutputs(plan)[n])

C28_ValidatorsAgree ==
    result.called =>
        /\ result.ok = OtherResult.ok
        /\ "other" \notin ElementsOf(KindsOf(result))
        /\ KindsOf(result) = KindsOf(OtherResult)
        /\ Len(result.warnings) = Len(OtherResult.warnings)
        /\ \A i \in DOMAIN result.warnings : SameSlotWarned(result, OtherResult, i)

\* An edge from an agent to itself and an edge from it to an unknown agent:
\* both validators report the unknown target, then the cycle
C28_Witness ==
    /\ result.called
    /\ result.by = "client"
    /\ plan.edges = <<[from |-> IdPool[1], to |-> IdPool[1], data |-> "c"],
                      [from |-> IdPool[1], to |-> Ghost, data |-> "c"]>>
    /\ KindsOf(result) = <<"target", "cycle">>
    /\ KindsOf(validatePlan(plan)) = <<"target", "cycle">>
    /\ result.errors # validatePlan(plan).errors
    /\ ~result.ok


(***************************************************************************)
(* The App when a plan request ends                                        *)
(***************************************************************************)
\* A step in which a mutation of the App ends, having called this callback
MutationEndsWith(callback) ==
    /\ Len(inflight') < Len(inflight)
    /\ Last(history').output = callback

\* App.selectedAgent: plan?.agents.find(a => a.id === selectedNodeId) ?? null,
\* as the set of agents that the details drawer shows
selectedAgent(a) ==
    {k \in DOMAIN a.plan.agents :
        /\ a.hasPlan
        /\ a.plan.agents[k].id = a.selectedNodeId
        /\ \A j \in 1..(k - 1) : a.plan.agents[j].id # a.selectedNodeId}

\* The selection is empty or names an agent of the displayed plan, and the
\* drawer shows no agent that is not part of the displayed plan
DrawerShowsDisplayedPlan ==
    /\ app.selectedNodeId # "" =>
          /\ app.hasPlan
          /\ \E k \in DOMAIN app.plan.agents : app.plan.agents[k].id = app.selectedNodeId
    /\ ~app.hasPlan => selectedAgent(app) = {}
    /\ Cardinality(selectedAgent(app)) <= 1

\* A failed request leaves the plan, the warnings and the selection alone
FailureKeepsDisplay ==
    MutationEndsWith("onError") =>
        /\ app'.hasPlan = app.hasPlan
        /\ app'.plan = app.plan
        /\ app'.warnings = app.warnings
        /\ app'.selectedNodeId = app.selectedNodeId

\* C29 as stated: In the App, a plan request that fails leaves the displayed
\* plan, the warnings list and the selected node unchanged; a request that
\* succeeds replaces the plan and the warnings with those of the response and
\* clears the selection, so that the drawer never shows an agent that is not
\* part of the displayed plan.
C29_Original_WarningsOfResponse ==
    /\ []DrawerShowsDisplayedPlan
    /\ [][/\ FailureKeepsDisplay
          /\ MutationEndsWith("onSuccess") =>
                /\ app'.hasPlan
                /\ app'.plan = Last(history').input.plan
                /\ app'.warnings = Last(history').input.warnings
                /\ app'.selectedNodeId = ""]_vars

\* C29: In the App, a plan request that fails (API error or client-side
\* validation error) leaves the displayed plan, the warnings list and the
\* selected node unchanged; a request that succeeds replaces the plan with that
\* of the response and the warnings with the warnings of the response followed
\* by the warnings of the client-side validation of that plan, whatever they
\* were before, and clears the selection, so that the details drawer never
\* shows an agent that is not part of the currently displayed plan.
C29_FailureKeepsSuccessReplaces ==
    /\ []DrawerShowsDisplayedPlan
    /\ [][/\ FailureKeepsDisplay
          /\ MutationEndsWith("onSuccess") =>
                /\ app'.hasPlan
                /\ app'.plan = Last(history').input.plan
                /\ app'.warnings =
                      Last(history').input.warnings
                         \o clientValidatePlan(Last(history').input.plan).warnings
                /\ app'.selectedNodeId = ""]_vars

\* A request has failed while a plan with warnings was displayed and one of
\* its agents was selected, and all three are still there
C29_Witness ==
    /\ history # <<>>
    /\ Last(history).output = "onError"
    /\ app.toast = "error"
    /\ app.hasPlan
    /\ app.warnings # <<>>
    /\ selectedAgent(app) # {}


(***************************************************************************)
(* Plan requests of the App that are pending together                      *)
(***************************************************************************)
\* C30: At most one plan request is in flight at any time: while a request
\* started from the prompt form is pending, neither a click on the Plan
\* Workflow button nor Ctrl/Cmd+Enter in the description field starts a second
\* request (from which the claim concludes that the displayed plan is that of
\* the most recently submitted description that succeeded).
C30_AtMostOneRequestInFlight ==
    /\ [](Cardinality(AppRequests(inflight)) <= 1)
    /\ [][StartsRequest => (~app.isPending /\ AppRequests(inflight) = {})]_vars

\* Two requests are pending together, the one submitted first for another
\* description than the one submitted last: whichever ends last is displayed
C30_TwoRequestsPending ==
    /\ Cardinality(AppRequests(inflight)) = 2
    /\ app.isPending
    /\ DescriptionOf(inflight[1]) # DescriptionOf(inflight[2])

====
